---------------------------- MODULE Spec2Model ----------------------------
(***************************************************************************)
(* A model of the #[borrowme] attribute macro (crates/borrowme-macros) and *)
(* of the runtime conversion traits it emits calls to (crates/borrowme).   *)
(*                                                                         *)
(* Options are sequences of length 0 or 1: <<>> is None, <<x>> is Some(x). *)
(* A span is <<i, j, k>>: attribute i of the list, nested meta j of that   *)
(* attribute (0: the attribute's own path), k = 1 for the last segment of  *)
(* the meta's value path (what parse_path returns), 0 otherwise.           *)
(***************************************************************************)
EXTENDS Integers, Sequences, FiniteSets, TLC

\* ------------------------------------------------------------- bounds

\* Longest attribute list explored on the element under test.
MaxAttrs == 2
\* Longest tuple / generic-argument / fn-input list of a declared type.
MaxArgs == 2
\* Longest generic parameter list of a container.
MaxParams == 3

\* ------------------------------------------------------------ helpers

None == <<>>
Some(x) == <<x>>
IsSome(o) == o /= <<>>
Unwrap(o) == o[1]

RECURSIVE SeqsOfLen(_, _)
\* All sequences over S of length n.
SeqsOfLen(S, n) ==
    IF n = 0 THEN {<<>>} ELSE {Append(q, x) : q \in SeqsOfLen(S, n - 1), x \in S}

\* All sequences over S of length 0..n.
SeqsUpTo(S, n) == UNION {SeqsOfLen(S, k) : k \in 0..n}

\* The element of a singleton set: The({e}) is e, computed once before it is
\* handed on.
The(S) == CHOOSE x \in S : TRUE

\* ---------------------------------------------------- attribute names

COPY == "copy"
NO_COPY == "no_copy"
BORROWME == "borrowme"
BORROWED_ATTR == "borrowed_attr"
OWNED_ATTR == "owned_attr"
OWNED == "owned"

STRIP == <<COPY, NO_COPY, BORROWED_ATTR, OWNED_ATTR, BORROWME, OWNED>>

\* ------------------------------------------------------- declared types

\* A syn::Type.  k: "path" (name, generic args), "pathfn" (parenthesized
\* args), "ref" (lt, m, one elem), "tuple", "array", "slice", "group",
\* "fn" (bound = for<..> lifetimes, args = inputs), "ptr" (any other
\* syn::Type variant wrapping a type), "ltarg" (a lifetime generic argument,
\* only inside the args of a path).  lt = "" is an elided lifetime.
Ty(k, name, lt, m, bound, args) ==
    [k |-> k, name |-> name, lt |-> lt, m |-> m, bound |-> bound, args |-> args]

TPath(name, args) == Ty("path", name, "", FALSE, <<>>, args)
TIdent(name) == TPath(name, <<>>)
TRef(lt, elem) == Ty("ref", "", lt, FALSE, <<>>, <<elem>>)
TRefMut(lt, elem) == Ty("ref", "", lt, TRUE, <<>>, <<elem>>)
TTuple(elems) == Ty("tuple", "", "", FALSE, <<>>, elems)
TArray(elem) == Ty("array", "", "", FALSE, <<>>, <<elem>>)
TSlice(elem) == Ty("slice", "", "", FALSE, <<>>, <<elem>>)
TGroup(elem) == Ty("group", "", "", FALSE, <<>>, <<elem>>)
TBareFn(bound, inputs) == Ty("fn", "", "", FALSE, bound, inputs)
TPathFn(name, inputs) == Ty("pathfn", name, "", FALSE, <<>>, inputs)
TPtr(elem) == Ty("ptr", "", "", FALSE, <<>>, <<elem>>)
LtArg(lt) == Ty("ltarg", "", lt, FALSE, <<>>, <<>>)
\* <ty as ::borrowme::ToOwned>::Owned
TProj(ty) == Ty("proj", "Owned", "", FALSE, <<>>, <<ty>>)

STATIC == "static"

\* ----------------------------------------------------------- attributes

\* One nested meta of #[borrowme(..)]: `name`, `name = path` or `name = type`.
Meta(name, hasval, path, ty) ==
    [name |-> name, hasval |-> hasval, path |-> path, ty |-> ty]
MFlag(name) == Meta(name, FALSE, <<>>, None)
MPath(name, path) == Meta(name, TRUE, path, None)
MType(name, ty) == Meta(name, TRUE, <<>>, Some(ty))

\* A syn::Attribute.  form "path" is #[p], "list" is #[p(..)].  For
\* #[borrowme(..)] the content is `metas`; for #[owned(..)] it is the type
\* `ty` that parses first and `trailing`, whether tokens follow that type;
\* for #[borrowed_attr(..)] / #[owned_attr(..)] it is the meta `fwd`.
Attr(path, form, metas, ty, trailing, fwd) ==
    [path |-> path, form |-> form, metas |-> metas, ty |-> ty,
     trailing |-> trailing, fwd |-> fwd]

APath(path) == Attr(path, "path", <<>>, None, FALSE, None)
AList(path) == Attr(path, "list", <<>>, None, FALSE, None)
ABorrowme(metas) == Attr(BORROWME, "list", metas, None, FALSE, None)
AOwned(ty) == Attr(OWNED, "list", <<>>, Some(ty), FALSE, None)
\* #[owned(ty = T)]: `ty` parses as a type path and `= T` is left over.
AOwnedTyEq == Attr(OWNED, "list", <<>>, Some(TIdent("ty")), TRUE, None)
\* #[borrowed_attr(<meta>)] / #[owned_attr(<meta>)]; a meta is named by its path.
AFwd(path, meta) == Attr(path, "list", <<>>, None, FALSE, Some(meta))
\* An attribute #[name(..)] the resolvers do not read, such as #[derive(Clone)].
AOther(name) == Attr(name, "list", <<>>, None, FALSE, None)

\* ------------------------------------------------------------- errors

Err(span, msg) == [span |-> span, msg |-> msg]

MsgExisting == "#[borrowme] Existing one is here."
MsgUnsupported == "#[borrowme]: Unsupported attribute."
\* Any error syn itself raises while parsing an attribute's tokens.
MsgParse == "syn parse error"
MsgCopyArgs == "#[copy] Expected no arguments."
MsgNoCopyArgs == "#[no_copy] Expected no arguments."
MsgDupName == "#[borrowme] Duplicate name."
MsgDupContainerKind == "#[borrowme] Duplicate container field kind."
MsgDupVariantKind == "#[borrowme] Duplicate variant field kind."
MsgDupCopy == "#[borrowme] Duplicate field kind from copy attribute."
MsgDupNoCopy == "#[borrowme] Duplicate field kind from no_copy attribute."
MsgDupOwned == "#[borrowme] Duplicate owned attribute."
MsgDupMut == "#[borrowme] Duplicate attribute setting mutability."
MsgDupKind == "#[borrowme] Duplicate field kind."
MsgDupToOwned == "#[borrowme] Duplicate to_owned_with."
MsgDupBorrow == "#[borrowme] Duplicate borrow_with."
MsgDupBorrowMut == "#[borrowme] Duplicate borrow_mut_with."

DupMsgs ==
    {MsgDupName, MsgDupContainerKind, MsgDupVariantKind, MsgDupCopy, MsgDupNoCopy,
     MsgDupOwned, MsgDupMut, MsgDupKind, MsgDupToOwned, MsgDupBorrow, MsgDupBorrowMut}

\* ------------------------------------------------- attribute resolution

\* FieldTypeKind
KDefault == "Default"
KCopyTrue == "Copy(true)"
KCopyFalse == "Copy(false)"
KStd == "Std"

\* set_attr with a second occurrence that replaces the stored value silently.
set_attr_overwrite(s, slot, meta, value, error) ==
    [s EXCEPT ![slot] = Some([span |-> meta, v |-> value]),
              !.calls = Append(@, [span |-> meta, slot |-> slot, v |-> value])]

\* fn set_attr: `s` holds the option slots of one Container / Variant / Field
\* under construction together with cx.errors.  s.calls is a history of the
\* calls made on `s` (location, slot, value); the program keeps no such list.
set_attr(s, slot, meta, value, error) ==
    IF IsSome(s[slot])
    THEN [s EXCEPT !.errors = @ \o <<Err(meta, error), Err(Unwrap(s[slot]).span, MsgExisting)>>,
                   !.calls = Append(@, [span |-> meta, slot |-> slot, v |-> value])]
    ELSE [s EXCEPT ![slot] = Some([span |-> meta, v |-> value]),
                   !.calls = Append(@, [span |-> meta, slot |-> slot, v |-> value])]

\* The result of one closure call of parse_nested_meta / parse_args_with:
\* the state after the writes it made and the Err it returned, if any.
Ok(s) == [s |-> s, err |-> None]
Fail(s, span, msg) == [s |-> s, err |-> Some(Err(span, msg))]

\* After the closure returned Ok, syn's nested-meta parser expects `,` or the
\* end: a value the closure did not consume is a parse error.
FlagDone(s, i, j, m) ==
    IF m.hasval THEN Fail(s, <<i, j, 0>>, MsgParse) ELSE Ok(s)

\* parse_path: `= <path>`.
HasPath(m) == m.hasval /\ m.path /= <<>>

\* A closure that passes over an option it does not know.
ContainerMeta_lenient(s, i, j, m) ==
    LET span == <<i, j, 0>> IN
    IF m.name = "name" THEN
        IF HasPath(m)
        THEN Ok(set_attr(s, "owned_ident", span, m.path[1], MsgDupName))
        ELSE Fail(s, span, MsgParse)
    ELSE IF m.name = "std" THEN
        FlagDone(set_attr(s, "kind", span, KStd, MsgDupContainerKind), i, j, m)
    ELSE Ok(s)

\* The closure of attr::container for one nested meta of #[borrowme(..)].
ContainerMeta(s, i, j, m) ==
    LET span == <<i, j, 0>> IN
    IF m.name = "name" THEN
        IF HasPath(m)
        THEN Ok(set_attr(s, "owned_ident", span, m.path[1], MsgDupName))
        ELSE Fail(s, span, MsgParse)
    ELSE IF m.name = "std" THEN
        FlagDone(set_attr(s, "kind", span, KStd, MsgDupContainerKind), i, j, m)
    ELSE Fail(s, span, MsgUnsupported)

\* The closure of attr::variant for one nested meta of #[borrowme(..)].
VariantMeta(s, i, j, m) ==
    LET span == <<i, j, 0>> IN
    IF m.name = "std" THEN
        FlagDone(set_attr(s, "kind", span, KStd, MsgDupVariantKind), i, j, m)
    ELSE Fail(s, span, MsgUnsupported)

\* The kind attr::field stores for the nested meta `copy` (attr.rs:336).
BorrowmeCopyKind == KCopyFalse

\* The kind attr::field stores for the nested meta `no_copy` (attr.rs:342).
BorrowmeNoCopyKind == KCopyFalse

\* A `with` that stores the base path itself.
WithPath_base(path, segment) == path

\* `with = <path>`: the base path with one segment appended.
WithPath(path, segment) == Append(path, segment)

\* The closure of attr::field for one nested meta of #[borrowme(..)].
FieldMeta(s, i, j, m) ==
    LET span == <<i, j, 0>> IN
    CASE m.name = OWNED ->
           IF m.hasval /\ IsSome(m.ty)
           THEN Ok(set_attr(s, "owned", span, Unwrap(m.ty), MsgDupOwned))
           ELSE Fail(s, span, MsgParse)
      [] m.name = "mut" ->
           FlagDone(set_attr(s, "is_mut", span, "()", MsgDupMut), i, j, m)
      [] m.name = COPY ->
           FlagDone(set_attr(s, "kind", span, BorrowmeCopyKind, MsgDupKind), i, j, m)
      [] m.name = NO_COPY ->
           FlagDone(set_attr(s, "kind", span, BorrowmeNoCopyKind, MsgDupKind), i, j, m)
      [] m.name = "std" ->
           FlagDone(set_attr(s, "kind", span, KStd, MsgDupKind), i, j, m)
      [] m.name = "to_owned_with" ->
           IF HasPath(m)
           THEN Ok(set_attr(s, "to_owned", span, m.path, MsgDupToOwned))
           ELSE Fail(s, span, MsgParse)
      [] m.name = "borrow_with" ->
           IF HasPath(m)
           THEN Ok(set_attr(s, "borrow", span, m.path, MsgDupBorrow))
           ELSE Fail(s, span, MsgParse)
      [] m.name = "borrow_mut_with" ->
           IF HasPath(m)
           THEN Ok(set_attr(set_attr(s, "borrow_mut", span, m.path, MsgDupBorrowMut),
                            "is_mut", span, "()", MsgDupMut))
           ELSE Fail(s, span, MsgParse)
      [] m.name = "with" ->
           IF HasPath(m)
           THEN LET last == <<i, j, 1>>
                    s1 == set_attr(s, "to_owned", last, WithPath(m.path, "to_owned"),
                                   MsgDupToOwned)
                    s2 == set_attr(s1, "borrow", last, WithPath(m.path, "borrow"), MsgDupBorrow)
                IN  Ok(set_attr(s2, "borrow_mut", last, WithPath(m.path, "borrow_mut"),
                                MsgDupBorrowMut))
           ELSE Fail(s, span, MsgParse)
      [] OTHER -> Fail(s, span, MsgUnsupported)

LevelMeta(level, s, i, j, m) ==
    CASE level = "container" -> ContainerMeta(s, i, j, m)
      [] level = "variant" -> VariantMeta(s, i, j, m)
      [] OTHER -> FieldMeta(s, i, j, m)

RECURSIVE NestedFrom(_, _, _, _, _)
\* syn's parse_nested_meta over metas[j..]: the closure runs on each nested
\* meta in turn and the first Err ends the attribute.
NestedFrom(level, s, i, metas, j) ==
    IF j > Len(metas) THEN Ok(s)
    ELSE LET r == LevelMeta(level, s, i, j, metas[j])
         IN  IF IsSome(r.err) THEN r ELSE NestedFrom(level, r.s, i, metas, j + 1)

\* a.parse_nested_meta(..): an attribute without parenthesised arguments is
\* an error of syn's before the closure runs.
parse_nested_meta(level, s, i, a) ==
    IF a.form /= "list" THEN Fail(s, <<i, 0, 0>>, MsgParse)
    ELSE NestedFrom(level, s, i, a.metas, 1)

\* #[borrowed_attr(<meta>)] / #[owned_attr(<meta>)]: push the parsed meta.
PushForward(s, i, a, list) ==
    IF a.form /= "list" \/ ~IsSome(a.fwd) THEN Fail(s, <<i, 0, 0>>, MsgParse)
    ELSE Ok([s EXCEPT ![list] = Append(@, Unwrap(a.fwd))])

\* `if let Err(error) = result { cx.error(error) }`
Register(r) ==
    IF IsSome(r.err) THEN [r.s EXCEPT !.errors = Append(@, Unwrap(r.err))] ELSE r.s

\* One iteration of the `for a in attrs` loop of attr::container.
ContainerAttr(s, i, a) ==
    IF a.path = BORROWME THEN Register(parse_nested_meta("container", s, i, a))
    ELSE IF a.path = BORROWED_ATTR THEN Register(PushForward(s, i, a, "attr_borrow"))
    ELSE IF a.path = OWNED_ATTR THEN Register(PushForward(s, i, a, "attr_own"))
    ELSE s

\* One iteration of the `for a in attrs` loop of attr::variant.
VariantAttr(s, i, a) ==
    IF a.path = BORROWME THEN Register(parse_nested_meta("variant", s, i, a))
    ELSE IF a.path = BORROWED_ATTR THEN Register(PushForward(s, i, a, "attr_borrow"))
    ELSE IF a.path = OWNED_ATTR THEN Register(PushForward(s, i, a, "attr_own"))
    ELSE s

\* #[owned(<type>)]: the closure stores the type that parses first; tokens
\* left after it make parse_args_with fail once the closure has returned.
OwnedArgs(s, i, a) ==
    IF a.form /= "list" \/ ~IsSome(a.ty) THEN Fail(s, <<i, 0, 0>>, MsgParse)
    ELSE LET s1 == set_attr(s, "owned", <<i, 0, 0>>, Unwrap(a.ty), MsgDupOwned)
         IN  IF a.trailing THEN Fail(s1, <<i, 0, 0>>, MsgParse) ELSE Ok(s1)

\* One iteration of the `for a in attrs` loop of attr::field.
FieldAttr(s, i, a) ==
    CASE a.path = COPY ->
           IF a.form = "path"
           THEN set_attr(s, "kind", <<i, 0, 0>>, KCopyTrue, MsgDupCopy)
           ELSE Register(Fail(s, <<i, 0, 0>>, MsgCopyArgs))
      [] a.path = NO_COPY ->
           IF a.form = "path"
           THEN set_attr(s, "kind", <<i, 0, 0>>, KCopyFalse, MsgDupNoCopy)
           ELSE Register(Fail(s, <<i, 0, 0>>, MsgNoCopyArgs))
      [] a.path = OWNED -> Register(OwnedArgs(s, i, a))
      [] a.path = BORROWME -> Register(parse_nested_meta("field", s, i, a))
      [] a.path = BORROWED_ATTR -> Register(PushForward(s, i, a, "attr_borrow"))
      [] a.path = OWNED_ATTR -> Register(PushForward(s, i, a, "attr_own"))
      [] OTHER -> s

LevelAttr(level, s, i, a) ==
    CASE level = "container" -> ContainerAttr(s, i, a)
      [] level = "variant" -> VariantAttr(s, i, a)
      [] OTHER -> FieldAttr(s, i, a)

RECURSIVE AttrLoop_stop(_, _, _, _)
\* A loop that ends at the first attribute that registered an error.
AttrLoop_stop(level, s, attrs, i) ==
    IF i > Len(attrs) THEN s
    ELSE IF Len(LevelAttr(level, s, i, attrs[i]).errors) > Len(s.errors)
         THEN LevelAttr(level, s, i, attrs[i])
         ELSE AttrLoop_stop(level, LevelAttr(level, s, i, attrs[i]), attrs, i + 1)

RECURSIVE AttrLoop(_, _, _, _)
\* `for a in attrs { .. }` from attribute i on: an attribute that registered
\* an error does not end the loop.
AttrLoop(level, s, attrs, i) ==
    IF i > Len(attrs) THEN s
    ELSE The({AttrLoop(level, s1, attrs, i + 1) : s1 \in {LevelAttr(level, s, i, attrs[i])}})

\* attr::container(cx, attrs, rest): the macro's own arguments chained with
\* the attributes of the item.  `errors` is cx.errors on entry.
ContainerInit(errors) ==
    [owned_ident |-> None, kind |-> None, attr_own |-> <<>>, attr_borrow |-> <<>>,
     errors |-> errors, calls |-> <<>>]

container(errors, attrs, rest) ==
    AttrLoop("container", ContainerInit(errors), attrs \o rest, 1)

\* Container::owned_ident
owned_ident(c, ident) ==
    IF IsSome(c.owned_ident) THEN Unwrap(c.owned_ident).v ELSE "Owned" \o ident

\* attr.rs:168-170: a variant without a kind takes the container's.
VariantInherit(v, c) ==
    IF ~IsSome(v.kind) THEN [v EXCEPT !.kind = c.kind] ELSE v

\* attr::variant(cx, attrs, container)
VariantInit(errors) ==
    [kind |-> None, attr_own |-> <<>>, attr_borrow |-> <<>>, errors |-> errors,
     calls |-> <<>>]

variant(errors, attrs, c) ==
    VariantInherit(AttrLoop("variant", VariantInit(errors), attrs, 1), c)

\* A field whose own kind is replaced by the inherited one.
FieldInherit_always(f, default_kind) == [f EXCEPT !.kind = default_kind]

\* attr.rs:419-421: a field without a kind takes default_kind.
FieldInherit(f, default_kind) ==
    IF ~IsSome(f.kind) THEN [f EXCEPT !.kind = default_kind] ELSE f

\* attr::field(cx, spans, attrs, default_kind); `kind` and `owned` are the
\* two slots of Field::ty.
FieldInit(errors) ==
    [is_mut |-> None, kind |-> None, owned |-> None, borrow |-> None,
     borrow_mut |-> None, to_owned |-> None, attr_own |-> <<>>,
     attr_borrow |-> <<>>, errors |-> errors, calls |-> <<>>]

field(errors, attrs, default_kind) ==
    FieldInherit(AttrLoop("field", FieldInit(errors), attrs, 1), default_kind)

\* FieldType::kind
FieldKind(f) == IF IsSome(f.kind) THEN Unwrap(f.kind).v ELSE KDefault

\* The paths Ctxt::new builds.
borrowme_borrow_t_borrow == <<"borrowme", "Borrow", "borrow">>
borrowme_borrow_mut_t_borrow_mut == <<"borrowme", "BorrowMut", "borrow_mut">>
clone_t_clone == <<"core", "clone", "Clone", "clone">>
borrowme_to_owned_t == <<"borrowme", "ToOwned">>
borrowme_to_owned_t_to_owned == <<"borrowme", "ToOwned", "to_owned">>

\* Field::borrow
FieldBorrow(f) == IF IsSome(f.borrow) THEN Unwrap(f.borrow).v ELSE borrowme_borrow_t_borrow
\* Field::borrow_mut
FieldBorrowMut(f) ==
    IF IsSome(f.borrow_mut) THEN Unwrap(f.borrow_mut).v ELSE borrowme_borrow_mut_t_borrow_mut
\* Field::to_owned
FieldToOwned(f) ==
    IF IsSome(f.to_owned) THEN Unwrap(f.to_owned).v ELSE borrowme_to_owned_t_to_owned
\* Field::is_mut
FieldIsMut(f) == IsSome(f.is_mut)

\* A strip that knows only the macro's own namespace.
strip_borrowme(attrs) == SelectSeq(attrs, LAMBDA a : a.path /= BORROWME)

\* attr::strip on one attribute list.
strip(attrs) ==
    SelectSeq(attrs, LAMBDA a : \A n \in 1..Len(STRIP) : a.path /= STRIP[n])

\* The syn::Attribute apply_attributes builds around a forwarded meta: an
\* outer attribute whose path is the meta's.
Pushed(meta) == AOther(meta)

\* An apply_attributes that pushes the twin's metas onto both declarations.
apply_attributes_both(attributes_own, attributes_borrow, owned_attrs, borrowed_attrs) ==
    [owned |-> owned_attrs \o [n \in 1..Len(attributes_own) |-> AOther(attributes_own[n])],
     borrowed |-> borrowed_attrs
                  \o [n \in 1..Len(attributes_own) |-> AOther(attributes_own[n])]
                  \o [n \in 1..Len(attributes_borrow) |-> AOther(attributes_borrow[n])]]

\* implement::apply_attributes; returns the two lists after the pushes.
apply_attributes(attributes_own, attributes_borrow, owned_attrs, borrowed_attrs) ==
    [owned |-> owned_attrs \o [n \in 1..Len(attributes_own) |-> Pushed(attributes_own[n])],
     borrowed |-> borrowed_attrs
                  \o [n \in 1..Len(attributes_borrow) |-> Pushed(attributes_borrow[n])]]

\* ------------------------------------------------------ type classifier

\* TypeHint
HNone == "None"
HCopy == "Copy"

combine(self, other) ==
    IF self = HCopy /\ other = HCopy THEN HCopy ELSE other

\* The identifiers process_type takes for primitives.
Primitives ==
    {"u8", "u16", "u32", "u64", "u128", "usize",
     "i8", "i16", "i32", "i64", "i128", "isize", "f32", "f64", "bool"}

\* One entry of `out`: where the lifetime stood (the child indices leading to
\* the reference or argument) and the lifetime replaced, None for `&T`.
Captured(at, lt) == [at |-> at, lt |-> lt]

RECURSIVE process_type(_, _, _, _)
RECURSIVE ProcessElems(_, _, _, _, _, _)
RECURSIVE process_generic_type(_, _, _, _, _)

\* A walk that does not look at the lifetimes bound by for<..>.
process_type_unbound(ty, ignore, out, at) ==
    CASE ty.k = "array" ->
           LET r == process_type(ty.args[1], ignore, out, Append(at, 1))
           IN  [hint |-> r.hint, reference_type |-> None,
                ty |-> [ty EXCEPT !.args = <<r.ty>>], out |-> r.out]
      [] ty.k = "fn" ->
           LET inner == ignore \cup {ty.bound[n] : n \in 1..Len(ty.bound)}
               r == ProcessElems(ty.args, inner, out, at, 1, HCopy)
           IN  [hint |-> HCopy, reference_type |-> None,
                ty |-> [ty EXCEPT !.args = r.elems], out |-> r.out]
      [] ty.k = "group" ->
           LET r == process_type(ty.args[1], ignore, out, Append(at, 1))
           IN  [r EXCEPT !.ty = [ty EXCEPT !.args = <<r.ty>>]]
      [] ty.k = "ref" ->
           IF ty.lt /= "" /\ ty.lt = STATIC
           THEN [hint |-> HCopy, reference_type |-> None, ty |-> ty, out |-> out]
           ELSE [hint |-> HNone, reference_type |-> Some(ty.args[1]),
                 ty |-> [ty EXCEPT !.lt = STATIC],
                 out |-> Append(out, Captured(at, IF ty.lt = "" THEN None ELSE Some(ty.lt)))]
      [] ty.k = "slice" ->
           LET r == process_type(ty.args[1], ignore, out, Append(at, 1))
           IN  [hint |-> HNone, reference_type |-> None,
                ty |-> [ty EXCEPT !.args = <<r.ty>>], out |-> r.out]
      [] ty.k = "tuple" ->
           LET r == ProcessElems(ty.args, ignore, out, at, 1, HCopy)
           IN  [hint |-> r.hint, reference_type |-> None,
                ty |-> [ty EXCEPT !.args = r.elems], out |-> r.out]
      [] ty.k = "path" ->
           IF ty.args = <<>> /\ ty.name \in Primitives
           THEN [hint |-> HCopy, reference_type |-> None, ty |-> ty, out |-> out]
           ELSE LET r == process_generic_type(ty.args, ignore, out, at, 1)
                IN  [hint |-> HNone, reference_type |-> None,
                     ty |-> [ty EXCEPT !.args = r.elems], out |-> r.out]
      [] ty.k = "pathfn" ->
           LET r == ProcessElems(ty.args, ignore, out, at, 1, HCopy)
           IN  [hint |-> HNone, reference_type |-> None,
                ty |-> [ty EXCEPT !.args = r.elems], out |-> r.out]
      [] OTHER ->
           [hint |-> HNone, reference_type |-> None, ty |-> ty, out |-> out]

\* fn process_type(ty, ignore, out) at position `at` of the field type:
\* [hint, reference_type, ty (as rewritten in place), out].
process_type(ty, ignore, out, at) ==
    CASE ty.k = "array" ->
           LET r == process_type(ty.args[1], ignore, out, Append(at, 1))
           IN  [hint |-> r.hint, reference_type |-> None,
                ty |-> [ty EXCEPT !.args = <<r.ty>>], out |-> r.out]
      [] ty.k = "fn" ->
           LET inner == ignore \cup {ty.bound[n] : n \in 1..Len(ty.bound)}
               r == ProcessElems(ty.args, inner, out, at, 1, HCopy)
           IN  [hint |-> HCopy, reference_type |-> None,
                ty |-> [ty EXCEPT !.args = r.elems], out |-> r.out]
      [] ty.k = "group" ->
           LET r == process_type(ty.args[1], ignore, out, Append(at, 1))
           IN  [r EXCEPT !.ty = [ty EXCEPT !.args = <<r.ty>>]]
      [] ty.k = "ref" ->
           IF ty.lt /= "" /\ (ty.lt \in ignore \/ ty.lt = STATIC)
           THEN [hint |-> HCopy, reference_type |-> None, ty |-> ty, out |-> out]
           ELSE [hint |-> HNone, reference_type |-> Some(ty.args[1]),
                 ty |-> [ty EXCEPT !.lt = STATIC],
                 out |-> Append(out, Captured(at, IF ty.lt = "" THEN None ELSE Some(ty.lt)))]
      [] ty.k = "slice" ->
           LET r == process_type(ty.args[1], ignore, out, Append(at, 1))
           IN  [hint |-> HNone, reference_type |-> None,
                ty |-> [ty EXCEPT !.args = <<r.ty>>], out |-> r.out]
      [] ty.k = "tuple" ->
           LET r == ProcessElems(ty.args, ignore, out, at, 1, HCopy)
           IN  [hint |-> r.hint, reference_type |-> None,
                ty |-> [ty EXCEPT !.args = r.elems], out |-> r.out]
      [] ty.k = "path" ->
           IF ty.args = <<>> /\ ty.name \in Primitives
           THEN [hint |-> HCopy, reference_type |-> None, ty |-> ty, out |-> out]
           ELSE LET r == process_generic_type(ty.args, ignore, out, at, 1)
                IN  [hint |-> HNone, reference_type |-> None,
                     ty |-> [ty EXCEPT !.args = r.elems], out |-> r.out]
      [] ty.k = "pathfn" ->
           LET r == ProcessElems(ty.args, ignore, out, at, 1, HCopy)
           IN  [hint |-> HNone, reference_type |-> None,
                ty |-> [ty EXCEPT !.args = r.elems], out |-> r.out]
      [] OTHER ->
           [hint |-> HNone, reference_type |-> None, ty |-> ty, out |-> out]

\* `for ty in elems { hint.combine(process_type(ty, ignore, out).0) }` from
\* element n on, `hint` being the value combined so far.
ProcessElems(elems, ignore, out, at, n, hint) ==
    IF n > Len(elems) THEN [elems |-> elems, out |-> out, hint |-> hint]
    ELSE LET r == process_type(elems[n], ignore, out, Append(at, n))
         IN  ProcessElems([elems EXCEPT ![n] = r.ty], ignore, r.out, at, n + 1,
                          combine(hint, r.hint))

\* fn process_generic_type(generics, ignore, out) from argument n on.
process_generic_type(elems, ignore, out, at, n) ==
    IF n > Len(elems) THEN [elems |-> elems, out |-> out]
    ELSE IF elems[n].k = "ltarg" THEN
        IF elems[n].lt = STATIC
        THEN [elems |-> elems, out |-> out]   \* `return`
        ELSE process_generic_type([elems EXCEPT ![n] = LtArg(STATIC)], ignore,
                                  Append(out, Captured(Append(at, n), Some(elems[n].lt))),
                                  at, n + 1)
    ELSE LET r == process_type(elems[n], ignore, out, Append(at, n))
         IN  process_generic_type([elems EXCEPT ![n] = r.ty], ignore, r.out, at, n + 1)

\* ------------------------------------------------------- code synthesis

\* Access
SelfAccess == "SelfAccess"
BindingAccess == "BindingAccess"

\* Binding: Named(ident) or Unnamed(index).
Binding(ident, index) ==
    IF IsSome(ident) THEN [named |-> TRUE, ident |-> Unwrap(ident), index |-> 0]
    ELSE [named |-> FALSE, ident |-> "", index |-> index]

\* Binding::as_variable
as_variable(b) == IF b.named THEN b.ident ELSE "f" \o ToString(b.index)

\* An emitted expression: `place` is "self" for self.<member> and "var" for a
\* bare variable, `ref` says it is wrapped in a reference expression, whose
\* `mutability` is None (implement.rs:119), `call` is the path of the function
\* it is the one argument of, if any.
Expr(call, place, ref, member, var) ==
    [call |-> call, place |-> place, ref |-> ref, mutability |-> None,
     member |-> member, var |-> var]

\* BoundAccess::as_expr
BoundAccessExpr(copy, access, binding) ==
    IF access = SelfAccess
    THEN Expr(None, "self", ~copy, binding, "")
    ELSE Expr(None, "var", FALSE, binding, as_variable(binding))

\* Whether the place expression denotes a reference to the field: it is
\* written with `&`, or it is a variable bound by a pattern of `match self`
\* where self is `&Self` (implement.rs:193-194, 278-279), which binds every
\* field by reference.
IsReference(e) == e.ref \/ e.place = "var"

\* Call: Path(path) is Some(path), Ref is None.
CallRef == None
CallPath(path) == Some(path)

\* Call::as_expr
CallExpr(call, copy, access, binding) ==
    [BoundAccessExpr(copy, access, binding) EXCEPT !.call = call]

MsgLifetime == "#[borrowme]: lifetime not supported."
MsgAnonymous == "#[borrowme]: anonymous references not supported."

\* implement.rs:394-412: under Copy(true) every captured lifetime is an error
\* (the hint is combined into the same syn::Error).
LifetimeErrors(lifetimes) ==
    [n \in 1..Len(lifetimes) |->
        Err(lifetimes[n].at, IF IsSome(lifetimes[n].lt) THEN MsgLifetime ELSE MsgAnonymous)]

\* implement.rs:441-445: the kind after the Copy hint was looked at.
Promote(kind, type_hint) ==
    IF type_hint = HCopy /\ kind /= KCopyFalse THEN KCopyTrue ELSE kind

\* The projection fallback without the exception for std references.
InferOwned_projection(kind, type_hint, reference_type, owned, as_ty) ==
    IF type_hint = HNone /\ ~IsSome(owned) THEN Some(TProj(as_ty)) ELSE owned

\* implement.rs:420-440: the owned type after the projection fallback;
\* `owned` is an Option of a type.
InferOwned(kind, type_hint, reference_type, owned, as_ty) ==
    LET is_std_ref == kind = KStd /\ IsSome(reference_type)
    IN  IF type_hint = HNone /\ ~IsSome(owned) /\ ~is_std_ref
        THEN Some(TProj(as_ty))
        ELSE owned

\* implement.rs:451-469: the match on (kind, reference_type, owned): the type
\* of the twin field and the two calls.  `ty` is the declared type.
Strategy(kind, reference_type, owned, ty, to_owned, borrow) ==
    IF kind = KCopyTrue THEN
        [o_ty |-> ty, to_owned |-> CallRef, borrow |-> CallRef]
    ELSE IF kind = KStd /\ IsSome(owned) THEN
        [o_ty |-> Unwrap(owned), to_owned |-> CallPath(clone_t_clone), borrow |-> CallRef]
    ELSE IF kind = KStd /\ IsSome(reference_type) THEN
        [o_ty |-> Unwrap(reference_type), to_owned |-> CallPath(clone_t_clone),
         borrow |-> CallRef]
    ELSE IF IsSome(owned) THEN
        [o_ty |-> Unwrap(owned), to_owned |-> CallPath(to_owned), borrow |-> CallPath(borrow)]
    ELSE
        [o_ty |-> ty, to_owned |-> CallPath(clone_t_clone), borrow |-> CallPath(clone_t_clone)]

\* A field of the input: its attributes, declared type and name (None in a
\* tuple struct or tuple variant).
FieldDecl(attrs, ty, ident) == [attrs |-> attrs, ty |-> ty, ident |-> ident]

\* Entries whose borrowed field takes the type the walk rewrote.
FieldEntries_rewritten(access, f, index, attr, attrs, pt, kind0, errors1, kind, owned, st, binding) ==
    [errors |-> errors1,
     attr |-> [attr EXCEPT !.errors = <<>>],
     explicit |-> kind0,
     kind |-> kind,
     owned |-> owned,
     type_hint |-> pt.hint,
     reference_type |-> pt.reference_type,
     lifetimes |-> pt.out,
     as_ty |-> pt.ty,
     o_field |-> [attrs |-> attrs.owned, ty |-> st.o_ty, ident |-> f.ident],
     b_field |-> [attrs |-> attrs.borrowed, ty |-> pt.ty, ident |-> f.ident],
     binding |-> binding,
     to_owned |-> CallExpr(st.to_owned, kind = KCopyTrue, access, binding),
     borrow |-> CallExpr(st.borrow, kind = KCopyTrue, access, binding)]

\* implement.rs:471-496: the binding and the two entries pushed for the field;
\* `st` is the outcome of the match before them.
FieldEntries(access, f, index, attr, attrs, pt, kind0, errors1, kind, owned, st, binding) ==
    [errors |-> errors1,
     attr |-> [attr EXCEPT !.errors = <<>>],
     explicit |-> kind0,
     kind |-> kind,
     owned |-> owned,
     type_hint |-> pt.hint,
     reference_type |-> pt.reference_type,
     lifetimes |-> pt.out,
     as_ty |-> pt.ty,
     o_field |-> [attrs |-> attrs.owned, ty |-> st.o_ty, ident |-> f.ident],
     b_field |-> [attrs |-> attrs.borrowed, ty |-> f.ty, ident |-> f.ident],
     binding |-> binding,
     to_owned |-> CallExpr(st.to_owned, kind = KCopyTrue, access, binding),
     borrow |-> CallExpr(st.borrow, kind = KCopyTrue, access, binding)]

\* implement.rs:451-469: `kind` and `owned` are attr.ty.kind and attr.ty.owned
\* as the match finds them.
FieldStrategy(access, f, index, attr, attrs, pt, kind0, errors1, kind, owned) ==
    FieldEntries(access, f, index, attr, attrs, pt, kind0, errors1, kind, owned,
                 Strategy(kind, pt.reference_type, owned, f.ty,
                          FieldToOwned(attr), FieldBorrow(attr)),
                 Binding(f.ident, index))

\* implement.rs:394-449: the diagnostics of a Copy(true) field, and for any
\* other field the inferred owned type and the promotion.  kind0 and owned0
\* are attr.ty.kind and attr.ty.owned as attr::field returned them.
FieldInfer(access, f, index, attr, attrs, pt, kind0, owned0) ==
    IF kind0 = KCopyTrue
    THEN FieldStrategy(access, f, index, attr, attrs, pt, kind0,
                       attr.errors \o LifetimeErrors(pt.out), kind0, owned0)
    ELSE FieldStrategy(access, f, index, attr, attrs, pt, kind0, attr.errors,
                       Promote(kind0, pt.hint),
                       InferOwned(kind0, pt.hint, pt.reference_type, owned0, pt.ty))

\* implement.rs:381-389: strip, apply_attributes and process_type on the
\* field whose attributes resolved to `attr`.
FieldAttributes(access, f, index, attr) ==
    FieldInfer(access, f, index, attr,
               apply_attributes(attr.attr_own, attr.attr_borrow,
                                strip(f.attrs), strip(f.attrs)),
               process_type(f.ty, {}, <<>>, <<>>),
               FieldKind(attr),
               IF IsSome(attr.owned) THEN Some(Unwrap(attr.owned).v) ELSE None)

\* One iteration of the loop of process_fields, for field `f` at `index`
\* (0-based), with cx.errors = errors on entry.
ProcessField(errors, access, f, index, default_kind) ==
    The({FieldAttributes(access, f, index, attr) :
            attr \in {field(errors, f.attrs, default_kind)}})

RECURSIVE process_fields(_, _, _, _, _, _)
\* A loop that puts each result before the earlier ones.
NextField_reversed(access, fields, default_kind, n, done, r) ==
    process_fields(r.errors, access, fields, default_kind, n + 1,
                   <<[r EXCEPT !.errors = <<>>]>> \o done)

\* The loop of process_fields after the iteration that produced r.
NextField(access, fields, default_kind, n, done, r) ==
    process_fields(r.errors, access, fields, default_kind, n + 1,
                   Append(done, [r EXCEPT !.errors = <<>>]))

\* fn process_fields from field n on (1-based here): cx.errors and the
\* per-field results so far, in declaration order.
process_fields(errors, access, fields, default_kind, n, done) ==
    IF n > Len(fields) THEN [errors |-> errors, fields |-> done]
    ELSE The({NextField(access, fields, default_kind, n, done, r) :
                 r \in {ProcessField(errors, access, fields[n], n - 1, default_kind)}})

\* A filter that keeps the type parameters only.
strip_lifetimes_types(params) == SelectSeq(params, LAMBDA g : g.k = "type")

\* fn strip_lifetimes: the generic parameters that are not lifetimes.
strip_lifetimes(params) == SelectSeq(params, LAMBDA g : g.k /= "lt")

\* ---------------------------------------------------- runtime traits

\* A runtime value: tag t, text (of a string), s (the elements of a
\* sequence, the payload of Some) and n (an integer).  References are
\* transparent: `&v` denotes v.
Val(tag, text, s, n) == [t |-> tag, text |-> text, s |-> s, n |-> n]
VStr(text) == Val("str", text, <<>>, 0)
VString(text) == Val("String", text, <<>>, 0)
VNone == Val("None", "", <<>>, 0)
VSome(v) == Val("Some", "", <<v>>, 0)
VVec(elems) == Val("Vec", "", elems, 0)
VInt(n) == Val("int", "", <<>>, n)
\* What a call of a function this model does not know returns.
VOpaque == Val("opaque", "", <<>>, 0)

\* Option::map that loses the payload.
MapOption_none(v, inner) == VNone

\* self.as_ref().map(..) with `inner` the mapped payload.
MapOption(v, inner) == IF v.t = "Some" THEN VSome(inner) ELSE VNone

\* out.push(value)
Push(out, value) == Append(out, value)

RECURSIVE ToOwnedVal(_)
RECURSIVE ToOwnedSeq(_, _, _)
\* <T as ToOwned>::to_owned(&v), dispatched on the type the value's tag stands
\* for: &T forwards to T, str gives a String, Option maps, Vec converts each
\* element in iteration order.
ToOwnedVal(v) ==
    CASE v.t = "str" -> VString(v.text)
      [] v.t = "String" -> VString(v.text)
      [] v.t \in {"Some", "None"} ->
           MapOption(v, IF v.t = "Some" THEN ToOwnedVal(v.s[1]) ELSE VNone)
      [] v.t = "Vec" -> VVec(ToOwnedSeq(v.s, 1, <<>>))
      [] OTHER -> VOpaque

ToOwnedSeq(elems, n, out) ==
    IF n > Len(elems) THEN out
    ELSE ToOwnedSeq(elems, n + 1, Push(out, ToOwnedVal(elems[n])))

RECURSIVE BorrowVal(_)
RECURSIVE BorrowSeq(_, _, _)
\* <T as Borrow>::borrow(&v): String gives a str, Option maps, Vec borrows
\* each element in iteration order.
BorrowVal(v) ==
    CASE v.t = "String" -> VStr(v.text)
      [] v.t \in {"Some", "None"} ->
           MapOption(v, IF v.t = "Some" THEN BorrowVal(v.s[1]) ELSE VNone)
      [] v.t = "Vec" -> VVec(BorrowSeq(v.s, 1, <<>>))
      [] OTHER -> VOpaque

BorrowSeq(elems, n, out) ==
    IF n > Len(elems) THEN out
    ELSE BorrowSeq(elems, n + 1, Push(out, BorrowVal(elems[n])))

\* The value of an emitted expression whose place holds v.
EvalExpr(e, v) ==
    IF ~IsSome(e.call) THEN v
    ELSE IF Unwrap(e.call) = borrowme_to_owned_t_to_owned THEN ToOwnedVal(v)
    ELSE IF Unwrap(e.call) = borrowme_borrow_t_borrow THEN BorrowVal(v)
    ELSE IF Unwrap(e.call) = clone_t_clone THEN v
    ELSE VOpaque

\* ------------------------------------------------------ explored inputs

TStr == TIdent("str")
TString == TIdent("String")
TU32 == TIdent("u32")

FieldAttrCatalogue ==
    {APath(COPY), APath(NO_COPY), AList(COPY), AOwned(TString), AOwnedTyEq,
     APath(BORROWME), AOther("derive"),
     AFwd(BORROWED_ATTR, "serde_borrow"), AFwd(OWNED_ATTR, "serde_default"),
     ABorrowme(<<MFlag(COPY)>>), ABorrowme(<<MFlag(NO_COPY)>>),
     ABorrowme(<<MFlag("std")>>), ABorrowme(<<MFlag("mut")>>),
     ABorrowme(<<MType(OWNED, TIdent("MyOwned"))>>),
     ABorrowme(<<MPath("to_owned_with", <<"f">>)>>),
     ABorrowme(<<MPath("borrow_with", <<"g">>)>>),
     ABorrowme(<<MPath("borrow_mut_with", <<"h">>)>>),
     ABorrowme(<<MPath("with", <<"p">>)>>),
     ABorrowme(<<MPath("with", <<"q">>)>>),
     ABorrowme(<<MPath("with", <<"p">>), MPath("borrow_with", <<"g">>)>>),
     ABorrowme(<<MFlag("unknown")>>),
     ABorrowme(<<MFlag("unknown"), MFlag("std")>>)}

ContainerAttrCatalogue ==
    {ABorrowme(<<MPath("name", <<"WordBuf">>)>>),
     ABorrowme(<<MPath("name", <<"Other">>)>>),
     ABorrowme(<<MFlag("std")>>), ABorrowme(<<MFlag("unknown")>>),
     APath(COPY), AOwned(TString), AOther("derive"),
     AFwd(BORROWED_ATTR, "derive_copy"), AFwd(OWNED_ATTR, "derive_default")}

VariantAttrCatalogue ==
    {ABorrowme(<<MFlag("std")>>), ABorrowme(<<MFlag("unknown")>>),
     ABorrowme(<<MPath("name", <<"WordBuf">>)>>),
     APath(COPY), AOther("serde"),
     AFwd(BORROWED_ATTR, "default"), AFwd(OWNED_ATTR, "serde_rename")}

\* The attribute lists the classification is explored under: a kind, an owned
\* type and delegate paths, each present or not.
KindAttrs ==
    {<<>>, <<APath(COPY)>>, <<APath(NO_COPY)>>, <<ABorrowme(<<MFlag("std")>>)>>,
     <<ABorrowme(<<MFlag(COPY)>>)>>, <<ABorrowme(<<MFlag(NO_COPY)>>)>>}
OwnedAttrs == {<<>>, <<AOwned(TString)>>}
PathAttrs ==
    {<<>>, <<ABorrowme(<<MPath("with", <<"p">>)>>)>>,
     <<ABorrowme(<<MPath("to_owned_with", <<"f">>)>>)>>}
ClassLists == {k \o o \o w : k \in KindAttrs, o \in OwnedAttrs, w \in PathAttrs}

\* Declared types.
BaseTypes ==
    {TU32, TString, TRef("a", TStr), TRef(STATIC, TStr), TRef("", TStr)}
GenericArgs == BaseTypes \cup {LtArg("a"), LtArg(STATIC)}
FnInputs == {TU32, TRef("a", TStr), TRef("b", TStr)}
NestedTypes ==
    {TRef("a", TSlice(TString)), TRef("a", TRef("b", TStr)), TRefMut("a", TString),
     TPath("Option", <<TPath("Vec", <<TRef("a", TStr)>>)>>),
     TTuple(<<TU32, TTuple(<<TU32, TString>>)>>),
     TArray(TTuple(<<TString, TU32>>)),
     TPath("Map", <<LtArg(STATIC), TPath("Vec", <<TRef("a", TStr)>>)>>),
     TBareFn(<<"b">>, <<TRef("b", TRef("a", TStr))>>),
     TPathFn("Fn", <<TRef("a", TStr)>>),
     TGroup(TRef("a", TStr)), TPtr(TRef("a", TStr)), TIdent("bool"),
     TRef(STATIC, TRef("a", TStr))}
TypeUniverse ==
    BaseTypes
    \cup {TTuple(e) : e \in SeqsUpTo(BaseTypes, MaxArgs)}
    \cup {TArray(e) : e \in BaseTypes}
    \cup {TSlice(e) : e \in BaseTypes}
    \cup {TPath("Cow", g) : g \in SeqsUpTo(GenericArgs, MaxArgs) \ {<<>>}}
    \cup {TBareFn(b, i) : b \in {<<>>, <<"b">>}, i \in SeqsUpTo(FnInputs, MaxArgs)}
    \cup NestedTypes
TinyTypes ==
    {TU32, TRef("a", TStr), TRef("a", TString), TRef(STATIC, TStr), TString,
     TTuple(<<TU32, TU32>>)}

Lt(name) == [k |-> "lt", name |-> name]
TypeParam(name) == [k |-> "type", name |-> name]
ConstParam(name) == [k |-> "const", name |-> name]

VariantDecl(ident, attrs, fields) == [ident |-> ident, attrs |-> attrs, fields |-> fields]

\* A macro invocation: the macro's own attributes, the item's shape, name,
\* generic parameters and attributes, the fields of a struct or the variants
\* of an enum, and `x`, a value of the item's type to convert, if any.
Item(shape, macro_attrs, attrs, params, fields, variants, x) ==
    [shape |-> shape, ident |-> "Word", macro_attrs |-> macro_attrs, attrs |-> attrs,
     params |-> params, fields |-> fields, variants |-> variants, x |-> x]

StdAttr == ABorrowme(<<MFlag("std")>>)
Params == <<Lt("a"), TypeParam("T"), Lt("b"), ConstParam("N")>>
Struct1(attrs, f) == Item("struct", <<>>, attrs, Params, <<f>>, <<>>, None)
Enum1(attrs, vattrs, f) ==
    Item("enum", <<>>, attrs, Params, <<>>, <<VariantDecl("Variant", vattrs, <<f>>)>>, None)

\* Every attribute list of the catalogue on one field.
FieldDeepItems ==
    {Struct1(<<>>, FieldDecl(a, TRef("a", TStr), Some("text"))) :
        a \in SeqsUpTo(FieldAttrCatalogue, MaxAttrs)}

TinyFields ==
    {FieldDecl(<<>>, TRef("a", TStr), Some("text")),
     FieldDecl(<<APath(COPY)>>, TU32, Some("count")),
     FieldDecl(<<ABorrowme(<<MFlag("unknown")>>), AOwned(TString)>>, TRef("a", TStr), None)}

\* Every attribute list of the catalogue on the container.
ContainerDeepItems ==
    {Item("struct", m, a, Params, <<f>>, <<>>, None) :
        m \in {<<>>, <<StdAttr>>, <<ABorrowme(<<MPath("name", <<"Buf">>)>>)>>},
        a \in SeqsUpTo(ContainerAttrCatalogue, MaxAttrs), f \in TinyFields}

\* Every attribute list of the catalogue on a variant.
VariantDeepItems ==
    {Enum1(c, a, f) :
        c \in {<<>>, <<StdAttr>>}, a \in SeqsUpTo(VariantAttrCatalogue, MaxAttrs),
        f \in TinyFields}

\* Every declared type under every classification.
ClassItems ==
    {Struct1(<<>>, FieldDecl(a, ty, Some("value"))) : a \in ClassLists, ty \in TypeUniverse}

\* Every classification under every inherited kind and both kinds of access.
ContextItems ==
    LET F == {FieldDecl(a, ty, n) : a \in ClassLists, ty \in TinyTypes,
                                    n \in {Some("value"), None}}
    IN  {Struct1(c, f) : c \in {<<>>, <<StdAttr>>}, f \in F}
        \cup {Enum1(c, v, f) : c \in {<<>>, <<StdAttr>>}, v \in {<<>>, <<StdAttr>>}, f \in F}

\* Items that are neither a struct nor an enum: a fn, and a union with a
\* field.
OtherItems ==
    {Item(s, m, a, Params, f, <<>>, None) :
        s \in {"fn", "union"},
        m \in {<<>>, <<ABorrowme(<<MFlag("unknown")>>)>>},
        a \in {<<>>, <<StdAttr>>, <<APath(COPY)>>, <<ABorrowme(<<MFlag("unknown")>>)>>,
               <<APath(BORROWME), AFwd(OWNED_ATTR, "derive_default")>>},
        f \in {<<>>, <<FieldDecl(<<AList(COPY)>>, TU32, Some("count"))>>}}

\* Generic parameter lists: lifetime, type and const parameters in any order,
\* no name twice.
ParamLists ==
    {q \in SeqsUpTo({Lt("a"), Lt("b"), TypeParam("T"), ConstParam("N")}, MaxParams) :
        \A m, n \in 1..Len(q) : m /= n => q[m] /= q[n]}

\* A struct and an enum under every generic parameter list.
ParamItems ==
    {Item("struct", <<>>, <<>>, q, <<FieldDecl(<<>>, TString, Some("text"))>>, <<>>, None) :
        q \in ParamLists}
    \cup
    {Item("enum", <<>>, <<>>, q, <<>>,
          <<VariantDecl("Variant", <<>>, <<FieldDecl(<<>>, TString, None)>>)>>, None) :
        q \in ParamLists}

\* Up to three fields, all named or all unnamed.
ShapeFields(named, k) ==
    SubSeq(<<FieldDecl(<<>>, TRef("a", TStr), IF named THEN Some("first") ELSE None),
             FieldDecl(<<>>, TU32, IF named THEN Some("second") ELSE None),
             FieldDecl(<<>>, TString, IF named THEN Some("third") ELSE None)>>, 1, k)

\* Structs and enums of every such shape: a unit, tuple or named struct, and
\* an enum of a unit variant and two variants with fields.
ShapeItems ==
    {Item("struct", <<>>, <<>>, Params, ShapeFields(b, k), <<>>, None) :
        b \in BOOLEAN, k \in 0..3}
    \cup
    {Item("enum", <<>>, <<>>, Params, <<>>,
          <<VariantDecl("Empty", <<>>, <<>>),
            VariantDecl("Left", <<>>, ShapeFields(b, k)),
            VariantDecl("Right", <<>>, ShapeFields(c, j))>>, None) :
        b \in BOOLEAN, c \in BOOLEAN, k \in 1..3, j \in 1..3}

\* Attribute lists with and without errors, for elements that have siblings.
SiblingFieldAttrs ==
    {<<>>, <<AList(COPY)>>, <<ABorrowme(<<MFlag("unknown")>>), StdAttr>>,
     <<APath(BORROWME), AOwned(TString)>>, <<AOwnedTyEq, AList(NO_COPY)>>,
     <<APath(COPY), APath(NO_COPY)>>}
SiblingVariantAttrs ==
    {<<>>, <<ABorrowme(<<MFlag("unknown")>>), StdAttr>>, <<APath(BORROWME), APath(BORROWME)>>}

\* Two fields in a struct, and two variants of one field each in an enum,
\* under every combination of these lists.
SiblingItems ==
    {Item("struct", <<>>, c, Params,
          <<FieldDecl(a, TRef("a", TStr), Some("first")),
            FieldDecl(b, TRef("a", TStr), Some("second"))>>, <<>>, None) :
        c \in {<<>>, <<ABorrowme(<<MFlag("unknown")>>)>>},
        a \in SiblingFieldAttrs, b \in SiblingFieldAttrs}
    \cup
    {Item("enum", <<>>, <<>>, Params, <<>>,
          <<VariantDecl("One", v, <<FieldDecl(a, TRef("a", TStr), None)>>),
            VariantDecl("Two", w, <<FieldDecl(b, TRef("a", TStr), None)>>)>>, None) :
        v \in SiblingVariantAttrs, w \in SiblingVariantAttrs,
        a \in SiblingFieldAttrs, b \in SiblingFieldAttrs}

\* Container values to convert: fields whose conversions the runtime traits
\* define, with the values of each field's type.
Texts == {"a", "b"}
RtFields ==
    {[decl |-> FieldDecl(<<>>, TRef("a", TStr), Some("text")),
      vals |-> {VStr(s) : s \in Texts}],
     [decl |-> FieldDecl(<<>>, TPath("Option", <<TRef("a", TStr)>>), Some("lang")),
      vals |-> {VNone} \cup {VSome(VStr(s)) : s \in Texts}],
     [decl |-> FieldDecl(<<>>, TPath("Vec", <<TRef("a", TStr)>>), Some("tags")),
      vals |-> {VVec(e) : e \in SeqsUpTo({VStr(s) : s \in Texts}, MaxArgs)}],
     [decl |-> FieldDecl(<<>>, TPath("Vec", <<TPath("Option", <<TRef("a", TStr)>>)>>), None),
      vals |-> {VVec(e) : e \in SeqsUpTo({VNone, VSome(VStr("a"))}, MaxArgs)}],
     [decl |-> FieldDecl(<<>>, TU32, Some("count")), vals |-> {VInt(0), VInt(1)}],
     [decl |-> FieldDecl(<<APath(COPY)>>, TRef(STATIC, TStr), None),
      vals |-> {VStr(s) : s \in Texts}],
     [decl |-> FieldDecl(<<StdAttr>>, TRef("a", TString), Some("name")),
      vals |-> {VString(s) : s \in Texts}],
     [decl |-> FieldDecl(<<AOwned(TString)>>, TRef("a", TStr), None),
      vals |-> {VStr(s) : s \in Texts}],
     [decl |-> FieldDecl(<<ABorrowme(<<MPath("with", <<"p">>)>>)>>, TRef("a", TStr),
                         Some("custom")),
      vals |-> {VStr(s) : s \in Texts}]}

\* A value of the item: the variant it was built with ("" for a struct) and
\* the values of its fields in declaration order.
Value(variant_ident, fields) == [variant |-> variant_ident, fields |-> fields]

RuntimeItems ==
    {Item("struct", <<>>, <<>>, Params, <<f.decl>>, <<>>, Some(Value("", <<v>>))) :
        f \in RtFields, v \in UNION {g.vals : g \in RtFields}}
    \cup
    {Item("struct", <<>>, <<>>, Params, <<f.decl, g.decl>>, <<>>,
          Some(Value("", <<v, VVec(<<VStr("a"), VStr("b")>>)>>))) :
        f \in RtFields, g \in {h \in RtFields : h.decl.ty = TPath("Vec", <<TRef("a", TStr)>>)},
        v \in UNION {h.vals : h \in RtFields}}
    \cup
    {Item("enum", <<>>, <<>>, Params, <<>>,
          <<VariantDecl("Empty", <<>>, <<>>), VariantDecl("One", <<>>, <<f.decl>>),
            VariantDecl("Other", <<>>, <<f.decl>>)>>,
          Some(x)) :
        f \in RtFields,
        x \in {Value("Empty", <<>>)}
              \cup {Value(n, <<v>>) : n \in {"One", "Other"},
                                      v \in UNION {h.vals : h \in RtFields}}}

\* The field values are values of the declared field types.
WellTyped(it) ==
    LET x == Unwrap(it.x)
        decls == IF it.shape = "struct" THEN it.fields
                 ELSE (CHOOSE v \in {it.variants[n] : n \in 1..Len(it.variants)} :
                          v.ident = x.variant).fields
    IN  \A n \in 1..Len(decls) :
            \E f \in RtFields : f.decl = decls[n] /\ x.fields[n] \in f.vals


\* --------------------------------------------------------- the expansion

VARIABLES
    item,      \* the macro invocation
    pc,        \* "input", "expanded", "failed", "owned", "borrowed"
    errors,    \* cx.errors
    out,       \* None, or Some of what implement built
    owned_x,   \* None, or Some(to_owned(&x))
    back_x     \* None, or Some(borrow(&to_owned(&x)))

vars == <<item, pc, errors, out, owned_x, back_x>>

MsgOnlyStructs == "#[borrowme]: is only supported on structs."

\* A declaration: the original one or its twin.
Decl(shape, ident, attrs, params, fields, variants) ==
    [shape |-> shape, ident |-> ident, attrs |-> attrs, params |-> params,
     fields |-> fields, variants |-> variants]

\* Binding::as_field_value: `ident` for a named field, `index: f<index>`
\* for an unnamed one.
as_field_value(b) ==
    [member |-> b, colon |-> ~b.named, var |-> as_variable(b)]

\* The kind handed to attr::field for the fields of a struct.
StructDefaultKind(c) == c.kind

\* The kind handed to attr::field for the fields of a variant.
VariantDefaultKind(v) == v.kind

\* One match arm of each generated function, or the one constructor of a
\* struct (variant = "", no patterns).
Arm(variant_ident, attr, o_attrs, b_attrs, fields, patterns) ==
    [variant |-> variant_ident, attr |-> attr, o_attrs |-> o_attrs,
     b_attrs |-> b_attrs, fields |-> fields, patterns |-> patterns]

\* implement.rs:171-175 and 215-219: the stripped and forwarded attribute
\* lists, the twin's generics and name; `attr` is what attr::container
\* returned.
ContainerDecls(it, attr, attrs) ==
    [attr |-> attr,
     o |-> Decl(it.shape, owned_ident(attr, it.ident), attrs.owned,
                strip_lifetimes(it.params), <<>>, <<>>),
     b |-> Decl(it.shape, it.ident, attrs.borrowed, it.params, <<>>, <<>>)]

ContainerApply(it, attr) ==
    ContainerDecls(it, attr,
                   apply_attributes(attr.attr_own, attr.attr_borrow,
                                    strip(it.attrs), strip(it.attrs)))

\* implement.rs:170 and 214
ContainerHead(errs, it) ==
    ContainerApply(it, container(errs, it.macro_attrs, it.attrs))

RECURSIVE Variants(_, _, _, _, _)
\* implement.rs:245-273: the patterns and the two arms pushed for variant v,
\* then the rest of the loop.
VariantArms(c, variants, n, done, v, attr, attrs, r) ==
    Variants(r.errors, c, variants, n + 1,
             Append(done,
                    Arm(v.ident, Some([attr EXCEPT !.errors = <<>>]),
                        attrs.owned, attrs.borrowed, r.fields,
                        [k \in 1..Len(v.fields) |->
                            as_field_value(Binding(v.fields[k].ident, k - 1))])))

\* implement.rs:229-243: `attr` is what attr::variant returned.
VariantFields(c, variants, n, done, v, attr) ==
    VariantArms(c, variants, n, done, v, attr,
                apply_attributes(attr.attr_own, attr.attr_borrow,
                                 strip(v.attrs), strip(v.attrs)),
                process_fields(attr.errors, BindingAccess, v.fields,
                               VariantDefaultKind(attr), 1, <<>>))

\* implement.rs:227-274: the loop over the variants from variant n on;
\* `done` holds the arms pushed so far.
Variants(errs, c, variants, n, done) ==
    IF n > Len(variants) THEN [errors |-> errs, arms |-> done]
    ELSE The({VariantFields(c, variants, n, done, variants[n], attr) :
                 attr \in {variant(errs, variants[n].attrs, c)}})

\* A renaming of the first parameter alone.
RenameThis_first(params) ==
    [n \in 1..Len(params) |->
        IF params[n].k = "lt" /\ n = 1 THEN [params[n] EXCEPT !.name = "this"] ELSE params[n]]

\* implement.rs:334-345: every lifetime parameter becomes 'this.
RenameThis(params) ==
    [n \in 1..Len(params) |->
        IF params[n].k = "lt" THEN [params[n] EXCEPT !.name = "this"] ELSE params[n]]

\* implement.rs:305-366: the two declarations and the two impls.
Stream(head, o, b, arms) ==
    [container |-> [head.attr EXCEPT !.errors = <<>>],
     item |-> b,
     output |-> o,
     arms |-> arms,
     to_owned |-> [impl_params |-> b.params, trait |-> borrowme_to_owned_t,
                   self_ident |-> b.ident, self_params |-> b.params,
                   assoc_ident |-> o.ident, assoc_params |-> o.params],
     borrow |-> [impl_params |-> o.params, trait |-> <<"borrowme", "Borrow">>,
                 self_ident |-> o.ident, self_params |-> o.params,
                 assoc_ident |-> b.ident, assoc_params |-> RenameThis(b.params)]]

FieldsOf(results, side) == [n \in 1..Len(results) |-> results[n][side]]

VariantsOf(arms, attrs, side) ==
    [n \in 1..Len(arms) |->
        VariantDecl(arms[n].variant, arms[n][attrs], FieldsOf(arms[n].fields, side))]

\* implement.rs:180-211 for the struct whose container part is `head`.
StructFields(it, head) ==
    [head |-> head,
     r |-> process_fields(head.attr.errors, SelfAccess, it.fields,
                          StructDefaultKind(head.attr), 1, <<>>)]

StructStream(s) ==
    [errors |-> s.r.errors,
     stream |-> Stream(s.head,
                       [s.head.o EXCEPT !.fields = FieldsOf(s.r.fields, "o_field")],
                       [s.head.b EXCEPT !.fields = FieldsOf(s.r.fields, "b_field")],
                       <<Arm("", None, <<>>, <<>>, s.r.fields, <<>>)>>)]

\* implement.rs:221-294 for the enum whose container part is `head`.
EnumVariants(it, head) ==
    [head |-> head,
     r |-> Variants(head.attr.errors, head.attr, it.variants, 1, <<>>)]

EnumStream(s) ==
    [errors |-> s.r.errors,
     stream |-> Stream(s.head,
                       [s.head.o EXCEPT !.variants = VariantsOf(s.r.arms, "o_attrs", "o_field")],
                       [s.head.b EXCEPT !.variants = VariantsOf(s.r.arms, "b_attrs", "b_field")],
                       s.r.arms)]

\* implement returned Ok(stream) with cx.errors = r.errors.
Expanded(r) ==
    /\ errors' = r.errors
    /\ out' = Some(r.stream)
    /\ pc' = "expanded"
    /\ UNCHANGED <<item, owned_x, back_x>>

\* implement, the arm for a struct.
ImplementStruct ==
    /\ pc = "input"
    /\ item.shape = "struct"
    /\ \E head \in {ContainerHead(errors, item)} :
          \E s \in {StructFields(item, head)} : Expanded(StructStream(s))

\* implement, the arm for an enum.
ImplementEnum ==
    /\ pc = "input"
    /\ item.shape = "enum"
    /\ \E head \in {ContainerHead(errors, item)} :
          \E s \in {EnumVariants(item, head)} : Expanded(EnumStream(s))

\* An arm for any other item that resolves the container's attributes before
\* it fails.
ImplementOther_resolves ==
    /\ pc = "input"
    /\ item.shape \notin {"struct", "enum"}
    /\ errors' = Append(container(errors, item.macro_attrs, item.attrs).errors,
                        Err(<<0, 0, 0>>, MsgOnlyStructs))
    /\ pc' = "failed"
    /\ UNCHANGED <<item, out, owned_x, back_x>>

\* implement, the arm for any other item.
ImplementOther ==
    /\ pc = "input"
    /\ item.shape \notin {"struct", "enum"}
    /\ errors' = Append(errors, Err(<<0, 0, 0>>, MsgOnlyStructs))
    /\ pc' = "failed"
    /\ UNCHANGED <<item, out, owned_x, back_x>>

\* `match self { .. }`: the first arm whose pattern names the value's
\* variant; a struct has its one constructor.
MatchArm(arms, value) ==
    arms[CHOOSE n \in 1..Len(arms) :
            /\ arms[n].variant = value.variant
            /\ \A k \in 1..(n - 1) : arms[k].variant /= value.variant]

\* The body of a generated function on `value`: the entries of the selected
\* arm, each evaluated on the field it names.
Convert(arms, side, value) ==
    LET arm == MatchArm(arms, value)
    IN  Value(arm.variant,
              [n \in 1..Len(arm.fields) |-> EvalExpr(arm.fields[n][side], value.fields[n])])

\* The expansion is accepted by the compiler as far as this model types it:
\* an entry without a call initialises a field that holds a value (a copy
\* field keeps its declared type) with a value, not with a reference.
TypeChecks(arms) ==
    \A n \in 1..Len(arms) : \A k \in 1..Len(arms[n].fields) :
        arms[n].fields[k].kind = KCopyTrue => ~IsReference(arms[n].fields[k].to_owned)

\* The generated ToOwned::to_owned on x.
ToOwnedCall ==
    /\ pc = "expanded"
    /\ errors = <<>>
    /\ TypeChecks(Unwrap(out).arms)
    /\ IsSome(item.x)
    /\ owned_x' = Some(Convert(Unwrap(out).arms, "to_owned", Unwrap(item.x)))
    /\ pc' = "owned"
    /\ UNCHANGED <<item, errors, out, back_x>>

\* The generated Borrow::borrow on the owned value.
BorrowCall ==
    /\ pc = "owned"
    /\ back_x' = Some(Convert(Unwrap(out).arms, "borrow", Unwrap(owned_x)))
    /\ pc' = "borrowed"
    /\ UNCHANGED <<item, errors, out, owned_x>>

Init ==
    /\ \/ item \in FieldDeepItems
       \/ item \in SiblingItems
       \/ item \in ContainerDeepItems
       \/ item \in VariantDeepItems
       \/ item \in ClassItems
       \/ item \in ContextItems
       \/ item \in OtherItems
       \/ item \in ParamItems
       \/ item \in ShapeItems
       \/ item \in {it \in RuntimeItems : WellTyped(it)}
    /\ pc = "input"
    /\ errors = <<>>
    /\ out = None
    /\ owned_x = None
    /\ back_x = None

Next ==
    \/ ImplementStruct
    \/ ImplementEnum
    \/ ImplementOther
    \/ ToOwnedCall
    \/ BorrowCall

Spec == Init /\ [][Next]_vars

\* ------------------------------------------------------------ properties

\* The fields the expansion processed: <<n, k>> is field k of arm n.
Sites ==
    IF IsSome(out)
    THEN UNION {{<<n, k>> : k \in 1..Len(Unwrap(out).arms[n].fields)} :
                   n \in 1..Len(Unwrap(out).arms)}
    ELSE {}

\* What process_fields computed for the field at site s.
Res(s) == Unwrap(out).arms[s[1]].fields[s[2]]

\* The field at site s as declared in the input.
DeclOf(s) ==
    IF item.shape = "struct" THEN item.fields[s[2]]
    ELSE item.variants[s[1]].fields[s[2]]

\* The attributes of the variant of site s (none for a struct).
VariantAttrsOf(s) ==
    IF item.shape = "struct" THEN <<>> ELSE item.variants[s[1]].attrs

CountMsg(errs, msgs) == Cardinality({p \in 1..Len(errs) : errs[p].msg \in msgs})

RECURSIVE SumSeq(_, _)
SumSeq(ns, n) == IF n > Len(ns) THEN 0 ELSE ns[n] + SumSeq(ns, n + 1)

RECURSIVE Flatten(_, _)
Flatten(seqs, n) == IF n > Len(seqs) THEN <<>> ELSE seqs[n] \o Flatten(seqs, n + 1)

\* ---- C1

\* The strategies under which to_owned and borrow are inverse to each other:
\* copy, std, and the default dispatch through ToOwned and Borrow.
Symmetric(r) ==
    \/ r.to_owned.call = CallRef /\ r.borrow.call = CallRef
    \/ r.to_owned.call = CallPath(clone_t_clone) /\ r.borrow.call = CallRef
    \/ /\ r.to_owned.call = CallPath(borrowme_to_owned_t_to_owned)
       /\ r.borrow.call = CallPath(borrowme_borrow_t_borrow)

SymmetricArm ==
    LET arm == MatchArm(Unwrap(out).arms, Unwrap(item.x))
    IN  \A k \in 1..Len(arm.fields) : Symmetric(arm.fields[k])

\* C1: once a value x of the borrowed container has been converted with the
\* generated to_owned and the result with the generated borrow, and every
\* field of x's variant uses a symmetric strategy, the result equals x: same
\* variant, same string contents, same None/Some shape, same sequence
\* lengths and element order.
RoundTrip ==
    (pc = "borrowed" /\ SymmetricArm) => Unwrap(back_x) = Unwrap(item.x)

\* A round trip of a struct holding Some("b") and the sequence "a", "b".
RoundTripWitness ==
    /\ pc = "borrowed"
    /\ SymmetricArm
    /\ Unwrap(item.x).fields = <<VSome(VStr("b")), VVec(<<VStr("a"), VStr("b")>>)>>
    /\ Unwrap(owned_x).fields = <<VSome(VString("b")), VVec(<<VString("a"), VString("b")>>)>>

\* ---- C2

\* The attribute records the expansion resolved, in the order it resolved
\* them: the container's, then each variant's followed by its fields'.
Resolved ==
    LET arms == Unwrap(out).arms
    IN  <<Unwrap(out).container>> \o
        Flatten([n \in 1..Len(arms) |->
                    arms[n].attr \o [k \in 1..Len(arms[n].fields) |-> arms[n].fields[k].attr]],
                1)

\* The calls of set_attr that found their slot written by an earlier call.
Hits(calls) ==
    {n \in 1..Len(calls) : \E k \in 1..(n - 1) : calls[k].slot = calls[n].slot}

\* The first call that wrote `slot`.
FirstCall(calls, slot) ==
    calls[CHOOSE k \in 1..Len(calls) :
             /\ calls[k].slot = slot
             /\ \A j \in 1..(k - 1) : calls[j].slot /= slot]

\* The options (attributes or nested metas) with a call among `hits`.
Options(calls, hits) == {<<calls[n].span[1], calls[n].span[2]>> : n \in hits}

TotalHits ==
    SumSeq([n \in 1..Len(Resolved) |-> Cardinality(Hits(Resolved[n].calls))], 1)

\* C2 (amended): every write to a slot that an earlier option of the same
\* attribute list has written registers exactly one error pair, the first
\* error at the new location and the second, "Existing one is here", at the
\* location of the first write, and the slot keeps the location and value of
\* the first write.  An option that writes k occupied slots registers k
\* pairs.
DuplicateWritePairs ==
    pc = "expanded" =>
        /\ CountMsg(errors, {MsgExisting}) = TotalHits
        /\ CountMsg(errors, DupMsgs) = TotalHits
        /\ \A n \in 1..Len(Resolved) :
            LET calls == Resolved[n].calls
            IN  /\ \A h \in Hits(calls) :
                    \E p \in 1..(Len(errors) - 1) :
                        /\ errors[p].span = calls[h].span
                        /\ errors[p].msg \in DupMsgs
                        /\ errors[p + 1] =
                               Err(FirstCall(calls, calls[h].slot).span, MsgExisting)
                /\ \A c \in 1..Len(calls) :
                    Resolved[n][calls[c].slot] =
                        Some([span |-> FirstCall(calls, calls[c].slot).span,
                              v |-> FirstCall(calls, calls[c].slot).v])

\* `with = p` followed by `with = q` on one field: three occupied slots,
\* three pairs, the paths built from p kept.
DuplicateWritePairsWitness ==
    /\ pc = "expanded"
    /\ \E s \in Sites :
        /\ Cardinality(Hits(Res(s).attr.calls)) = 3
        /\ Cardinality(Options(Res(s).attr.calls, Hits(Res(s).attr.calls))) = 1
        /\ CountMsg(errors, {MsgExisting}) = 3
        /\ Res(s).attr.to_owned = Some([span |-> <<1, 1, 1>>, v |-> <<"p", "to_owned">>])

\* C2 as stated: every option written a second time registers exactly one
\* error pair.
DuplicateOptionOnePair ==
    pc = "expanded" =>
        CountMsg(errors, {MsgExisting}) =
            SumSeq([n \in 1..Len(Resolved) |->
                       Cardinality(Options(Resolved[n].calls, Hits(Resolved[n].calls)))], 1)

\* ---- C3

RECURSIVE HasReferenceLifetime(_, _)
\* The type contains, at any depth, a reference whose lifetime is not
\* 'static and not bound by an enclosing for<..>.
HasReferenceLifetime(ty, bound) ==
    \/ ty.k = "ref" /\ ty.lt /= STATIC /\ ty.lt \notin bound
    \/ \E n \in 1..Len(ty.args) :
          HasReferenceLifetime(ty.args[n], bound \cup {ty.bound[b] : b \in 1..Len(ty.bound)})

\* C3: processing a field explicitly marked copy whose declared type contains
\* a non-static reference lifetime, at any depth, registers at least one
\* error.
CopyFieldLifetimeRejected ==
    pc = "expanded" =>
        \A s \in Sites :
            (Res(s).explicit = KCopyTrue /\ HasReferenceLifetime(DeclOf(s).ty, {}))
                => errors /= <<>>

\* ---- C4

\* C4: the hint of a tuple type is Copy exactly when the hint of every
\* element is Copy, whatever the order of the elements.
TupleHintAllCopy ==
    pc = "expanded" =>
        \A s \in Sites :
            DeclOf(s).ty.k = "tuple" =>
                (Res(s).type_hint = HCopy <=>
                    \A n \in 1..Len(DeclOf(s).ty.args) :
                        process_type(DeclOf(s).ty.args[n], {}, <<>>, <<>>).hint = HCopy)

\* ---- C5

\* C5: #[borrowme(copy)] resolves to the kind of #[copy], explicit copy =
\* true, and #[borrowme(no_copy)] to the kind of #[no_copy], explicit copy =
\* false.
NamespacedSpellingsEquivalent ==
    pc = "expanded" =>
        \A s \in Sites :
            /\ DeclOf(s).attrs \in {<<APath(COPY)>>, <<ABorrowme(<<MFlag(COPY)>>)>>}
                   => FieldKind(Res(s).attr) = KCopyTrue
            /\ DeclOf(s).attrs \in {<<APath(NO_COPY)>>, <<ABorrowme(<<MFlag(NO_COPY)>>)>>}
                   => FieldKind(Res(s).attr) = KCopyFalse

\* ---- C6

\* C6: a field whose effective kind is std and whose declared type yields a
\* Copy hint converts to owned through Clone::clone and borrows through the
\* reference expression.
StdNeverPromoted ==
    pc = "expanded" =>
        \A s \in Sites :
            (FieldKind(Res(s).attr) = KStd /\ Res(s).type_hint = HCopy) =>
                /\ Res(s).to_owned.call = CallPath(clone_t_clone)
                /\ Res(s).borrow.call = CallRef
                /\ IsReference(Res(s).borrow)

\* ---- C7

\* C7: a field with an explicit owned type, no copy attribute and no std
\* kind, whose declared type yields a Copy hint, has the owned type in the
\* twin and converts through the delegate paths.
OwnedBeatsCopyHint ==
    pc = "expanded" =>
        \A s \in Sites :
            (/\ IsSome(Res(s).attr.owned)
             /\ Res(s).explicit \in {KDefault, KCopyFalse}
             /\ Res(s).type_hint = HCopy) =>
                /\ Res(s).o_field.ty = Unwrap(Res(s).attr.owned).v
                /\ Res(s).to_owned.call = CallPath(FieldToOwned(Res(s).attr))
                /\ Res(s).borrow.call = CallPath(FieldBorrow(Res(s).attr))

\* ---- C8

\* C8: for a field whose resolved kind is explicit copy = true, both emitted
\* expressions carry no call and denote the field's value, and the twin
\* field has the declared type.
ExplicitCopyByValue ==
    pc = "expanded" =>
        \A s \in Sites :
            Res(s).explicit = KCopyTrue =>
                /\ Res(s).to_owned.call = CallRef /\ ~IsReference(Res(s).to_owned)
                /\ Res(s).borrow.call = CallRef /\ ~IsReference(Res(s).borrow)
                /\ Res(s).o_field.ty = DeclOf(s).ty

\* ---- C9

\* C9: a field marked no_copy, without an owned type and not std, has the
\* ToOwned::Owned projection of its declared type in the twin and converts
\* through the ToOwned and Borrow paths or the paths set on it.
NoCopyFallsBack ==
    pc = "expanded" =>
        \A s \in Sites :
            (Res(s).explicit = KCopyFalse /\ ~IsSome(Res(s).attr.owned)) =>
                /\ Res(s).o_field.ty = TProj(Res(s).as_ty)
                /\ Res(s).to_owned.call = CallPath(FieldToOwned(Res(s).attr))
                /\ Res(s).borrow.call = CallPath(FieldBorrow(Res(s).attr))

\* ---- C10

\* What the attributes of one level set when resolved on their own, with
\* nothing to inherit.
OwnLevel(level, attrs) ==
    AttrLoop(level,
             CASE level = "container" -> ContainerInit(<<>>)
               [] level = "variant" -> VariantInit(<<>>)
               [] OTHER -> FieldInit(<<>>),
             attrs, 1)

KindOf(kind) == IF IsSome(kind) THEN Unwrap(kind).v ELSE KDefault

\* The kind of the nearest level that sets one: field, variant, container.
NearestKind(s) ==
    LET f == OwnLevel("field", DeclOf(s).attrs).kind
        v == OwnLevel("variant", VariantAttrsOf(s)).kind
        c == OwnLevel("container", item.macro_attrs \o item.attrs).kind
    IN  IF IsSome(f) THEN KindOf(f)
        ELSE IF IsSome(v) THEN KindOf(v)
        ELSE KindOf(c)

\* The "Existing one is here" errors of every level resolved on its own.
OwnConflicts ==
    CountMsg(OwnLevel("container", item.macro_attrs \o item.attrs).errors, {MsgExisting})
    + SumSeq([n \in 1..Len(item.variants) |->
                 CountMsg(OwnLevel("variant", item.variants[n].attrs).errors, {MsgExisting})
                 + SumSeq([k \in 1..Len(item.variants[n].fields) |->
                              CountMsg(OwnLevel("field", item.variants[n].fields[k].attrs).errors,
                                       {MsgExisting})], 1)], 1)
    + SumSeq([k \in 1..Len(item.fields) |->
                 CountMsg(OwnLevel("field", item.fields[k].attrs).errors, {MsgExisting})], 1)

Reserved == {COPY, NO_COPY, BORROWED_ATTR, OWNED_ATTR, BORROWME, OWNED}

\* The n-th smallest member of a set of naturals.
Nth(S, n) == CHOOSE x \in S : Cardinality({y \in S : y < x}) = n - 1

\* The attributes of `attrs` whose path is not reserved, in their order.
Unreserved(attrs) ==
    LET keep == {n \in 1..Len(attrs) : attrs[n].path \notin Reserved}
    IN  [n \in 1..Cardinality(keep) |-> attrs[Nth(keep, n)]]

\* What strip left of a declared attribute list: the emitted list without
\* the `pushed` attributes apply_attributes appended to it.
Kept(emitted, pushed) == SubSeq(emitted, 1, Len(emitted) - Len(pushed))

\* The attribute lists the expansion stripped: as declared, and as left on
\* the original and on the twin.
Stripped ==
    LET o == Unwrap(out)
    IN  {[declared |-> item.attrs,
          b |-> Kept(o.item.attrs, o.container.attr_borrow),
          o |-> Kept(o.output.attrs, o.container.attr_own)]}
        \cup {[declared |-> item.variants[n].attrs,
               b |-> Kept(o.arms[n].b_attrs, Unwrap(o.arms[n].attr).attr_borrow),
               o |-> Kept(o.arms[n].o_attrs, Unwrap(o.arms[n].attr).attr_own)] :
                 n \in 1..Len(item.variants)}
        \cup {[declared |-> DeclOf(s).attrs,
               b |-> Kept(Res(s).b_field.attrs, Res(s).attr.attr_borrow),
               o |-> Kept(Res(s).o_field.attrs, Res(s).attr.attr_own)] : s \in Sites}

\* C11: what stripping leaves of an attribute list, on the original and on
\* the twin, holds no attribute with a reserved path, consumed or not, valid
\* or not, holds every other attribute in its original order, and stripping
\* it again changes nothing.
StripReserved ==
    pc = "expanded" =>
        \A l \in Stripped :
            /\ \A n \in 1..Len(l.b) : l.b[n].path \notin Reserved
            /\ l.b = Unreserved(l.declared)
            /\ l.o = Unreserved(l.declared)
            /\ strip(l.b) = l.b
            /\ strip(strip(l.declared)) = strip(l.declared)

\* A field declared with `#[copy(..)]`, which is rejected, before
\* `#[derive(..)]`: only the latter is left.
StripReservedWitness ==
    /\ pc = "expanded"
    /\ \E s \in Sites :
        /\ DeclOf(s).attrs = <<AList(COPY), AOther("derive")>>
        /\ CountMsg(errors, {MsgCopyArgs}) = 1
        /\ Res(s).b_field.attrs = <<AOther("derive")>>

\* ---- C12

\* The metas given in the #[<path>(..)] attributes of a list, in their order,
\* each as the attribute it is emitted as.
Forwarded(attrs, path) ==
    LET given == SelectSeq(attrs, LAMBDA a : a.path = path /\ a.form = "list" /\ IsSome(a.fwd))
    IN  [n \in 1..Len(given) |-> AOther(Unwrap(given[n].fwd))]

\* The container, each variant and each field: the attributes resolved for
\* it and the lists emitted on the original (b) and on the twin (o).
Emitted ==
    LET e == Unwrap(out)
    IN  {[resolved |-> item.macro_attrs \o item.attrs, declared |-> item.attrs,
          b |-> e.item.attrs, o |-> e.output.attrs]}
        \cup {[resolved |-> item.variants[n].attrs, declared |-> item.variants[n].attrs,
               b |-> e.item.variants[n].attrs, o |-> e.output.variants[n].attrs] :
                 n \in 1..Len(item.variants)}
        \cup {[resolved |-> DeclOf(s).attrs, declared |-> DeclOf(s).attrs,
               b |-> Res(s).b_field.attrs, o |-> Res(s).o_field.attrs] : s \in Sites}

Elems(q) == {q[n] : n \in 1..Len(q)}

\* C12: at the container, at every variant and at every field, the twin
\* carries the attributes outside the reserved set followed by the metas of
\* owned_attr(..), the original carries them followed by the metas of
\* borrowed_attr(..), and no meta of one side is found on the other.
ForwardOneSided ==
    pc = "expanded" =>
        \A l \in Emitted :
            /\ l.o = Unreserved(l.declared) \o Forwarded(l.resolved, OWNED_ATTR)
            /\ l.b = Unreserved(l.declared) \o Forwarded(l.resolved, BORROWED_ATTR)
            /\ Elems(Forwarded(l.resolved, OWNED_ATTR)) \cap Elems(l.b) = {}
            /\ Elems(Forwarded(l.resolved, BORROWED_ATTR)) \cap Elems(l.o) = {}
            /\ \A n \in 1..Len(l.declared) :
                l.declared[n].path \notin Reserved =>
                    l.declared[n] \in Elems(l.b) \cap Elems(l.o)

\* A variant declared with #[serde(..)] and #[borrowed_attr(default)]: the
\* original variant carries both, the twin variant only the first.
ForwardOneSidedWitness ==
    /\ pc = "expanded"
    /\ item.shape = "enum"
    /\ item.variants[1].attrs = <<AOther("serde"), AFwd(BORROWED_ATTR, "default")>>
    /\ Unwrap(out).item.variants[1].attrs = <<AOther("serde"), AOther("default")>>
    /\ Unwrap(out).output.variants[1].attrs = <<AOther("serde")>>

\* ---- C13

\* The errors an attribute registers whatever precedes it.
OwnMsgs == {MsgUnsupported, MsgParse, MsgCopyArgs, MsgNoCopyArgs}

LevelInit(level) ==
    CASE level = "container" -> ContainerInit(<<>>)
      [] level = "variant" -> VariantInit(<<>>)
      [] OTHER -> FieldInit(<<>>)

\* Attribute i of a list resolved with nothing before it.
Alone(level, attrs, i) == LevelAttr(level, LevelInit(level), i, attrs[i])

AloneErrors(level, attrs) ==
    Flatten([i \in 1..Len(attrs) |->
                SelectSeq(Alone(level, attrs, i).errors, LAMBDA e : e.msg \in OwnMsgs)], 1)

AloneCalls(level, attrs) ==
    Flatten([i \in 1..Len(attrs) |-> Alone(level, attrs, i).calls], 1)

AloneForwards(level, attrs, list) ==
    Flatten([i \in 1..Len(attrs) |-> Alone(level, attrs, i)[list]], 1)

\* The attribute lists of the input in the order the expansion resolves
\* them: the container's, then each variant's followed by its fields'.
DeclaredLevels ==
    <<[level |-> "container", attrs |-> item.macro_attrs \o item.attrs]>>
    \o [k \in 1..Len(item.fields) |-> [level |-> "field", attrs |-> item.fields[k].attrs]]
    \o Flatten([n \in 1..Len(item.variants) |->
                   <<[level |-> "variant", attrs |-> item.variants[n].attrs]>>
                   \o [k \in 1..Len(item.variants[n].fields) |->
                          [level |-> "field", attrs |-> item.variants[n].fields[k].attrs]]], 1)

\* C13: the errors of the expansion hold, in order, every error each
\* attribute of each list registers on its own; every write and every
\* forwarded meta of each attribute is made, whatever errors were registered
\* before it; and every declared variant and field is processed.
NeverStopsAtFirstError ==
    pc = "expanded" =>
        /\ SelectSeq(errors, LAMBDA e : e.msg \in OwnMsgs) =
               Flatten([n \in 1..Len(DeclaredLevels) |->
                           AloneErrors(DeclaredLevels[n].level, DeclaredLevels[n].attrs)], 1)
        /\ Len(Resolved) = Len(DeclaredLevels)
        /\ \A n \in 1..Len(DeclaredLevels) :
            LET l == DeclaredLevels[n]
            IN  /\ Resolved[n].calls = AloneCalls(l.level, l.attrs)
                /\ Resolved[n].attr_own = AloneForwards(l.level, l.attrs, "attr_own")
                /\ Resolved[n].attr_borrow = AloneForwards(l.level, l.attrs, "attr_borrow")

\* An enum whose first variant and first field each register an error before
\* a valid `std`, and whose second variant holds a field with #[copy(..)]
\* and then #[owned(ty = T)]: four errors before the last attribute, which
\* still registers its own, and every std took effect.
NeverStopsAtFirstErrorWitness ==
    /\ pc = "expanded"
    /\ item.shape = "enum"
    /\ Len(item.variants) = 2
    /\ item.variants[1].attrs = <<ABorrowme(<<MFlag("unknown")>>), StdAttr>>
    /\ item.variants[1].fields[1].attrs = <<ABorrowme(<<MFlag("unknown")>>), StdAttr>>
    /\ item.variants[2].fields[1].attrs = <<AOwnedTyEq, AList(NO_COPY)>>
    /\ item.variants[2].attrs = <<APath(BORROWME), APath(BORROWME)>>
    /\ CountMsg(errors, OwnMsgs) = 6
    /\ errors[Len(errors)].msg = MsgNoCopyArgs
    /\ Res(<<1, 1>>).attr.kind = Some([span |-> <<2, 1, 0>>, v |-> KStd])
    /\ Unwrap(Unwrap(out).arms[1].attr).kind = Some([span |-> <<2, 1, 0>>, v |-> KStd])
    /\ Res(<<2, 1>>).attr.owned = Some([span |-> <<1, 0, 0>>, v |-> TIdent("ty")])

\* ---- C14

\* C14: an item that is neither a struct nor an enum is never expanded; once
\* the transformation has run on it, it has failed, nothing was produced, and
\* the one error registered is the shape error: none of the errors the
\* attributes of the item or of its fields would register is there.
ShapeError ==
    /\ pc = "failed" =>
        /\ item.shape \notin {"struct", "enum"}
        /\ out = None
        /\ errors = <<Err(<<0, 0, 0>>, MsgOnlyStructs)>>
    /\ item.shape \notin {"struct", "enum"} => pc \in {"input", "failed"}
    /\ item.shape \in {"struct", "enum"} => CountMsg(errors, {MsgOnlyStructs}) = 0

\* A union whose attributes and whose field's attributes would each register
\* an error if they were resolved.
ShapeErrorWitness ==
    /\ pc = "failed"
    /\ item.shape = "union"
    /\ Len(item.fields) = 1
    /\ OwnLevel("container", item.macro_attrs \o item.attrs).errors /= <<>>
    /\ OwnLevel("field", item.fields[1].attrs).errors /= <<>>
    /\ Len(errors) = 1

\* ---- C15

\* C15: a field declared with #[copy] and #[no_copy], in either order,
\* registers exactly one conflict, the error at the second attribute paired
\* with "Existing one is here" at the first, and is not processed as a copy
\* field: its kind is not Copy(true) and its conversions are calls.
CopyNoCopyConflictDefault ==
    pc = "expanded" =>
        \A s \in Sites :
            DeclOf(s).attrs \in {<<APath(COPY), APath(NO_COPY)>>, <<APath(NO_COPY), APath(COPY)>>}
                => /\ Cardinality(Hits(Res(s).attr.calls)) = 1
                   /\ \E p \in 1..(Len(errors) - 1) :
                        /\ errors[p].span = <<2, 0, 0>> /\ errors[p].msg \in DupMsgs
                        /\ errors[p + 1] = Err(<<1, 0, 0>>, MsgExisting)
                   /\ Res(s).explicit /= KCopyTrue
                   /\ Res(s).kind /= KCopyTrue
                   /\ Res(s).to_owned.call /= CallRef

\* ---- C16

RECURSIVE ContainsRefMut(_)
\* The type contains a `&mut T` reference, at any depth.
ContainsRefMut(ty) ==
    \/ ty.k = "ref" /\ ty.m
    \/ \E n \in 1..Len(ty.args) : ContainsRefMut(ty.args[n])

\* C16: a field whose declared type contains a `&mut T` reference is resolved
\* as requiring mutable access, the reference expression emitted for it is
\* never an immutable one, and under the std kind its borrow entry is a
\* mutable reference to the owned field.
MutableAccess ==
    pc = "expanded" =>
        \A s \in Sites :
            ContainsRefMut(DeclOf(s).ty) =>
                /\ FieldIsMut(Res(s).attr)
                /\ Res(s).borrow.ref => IsSome(Res(s).borrow.mutability)
                /\ Res(s).kind = KStd =>
                    /\ Res(s).borrow.call = CallRef
                    /\ Res(s).borrow.ref
                    /\ IsSome(Res(s).borrow.mutability)

\* ---- C17

\* The nested metas of a list of #[borrowme(..)] attributes, in their order.
MetasOf(attrs) == Flatten([n \in 1..Len(attrs) |-> attrs[n].metas], 1)

OnlyBorrowme(attrs) ==
    \A n \in 1..Len(attrs) : attrs[n].path = BORROWME /\ attrs[n].form = "list"

\* The slot each delegate option writes; the suffix `with` appends for a slot
\* is the slot's name.
PathSlots == {"to_owned", "borrow", "borrow_mut"}
PathSlot(name) ==
    CASE name = "to_owned_with" -> "to_owned"
      [] name = "borrow_with" -> "borrow"
      [] name = "borrow_mut_with" -> "borrow_mut"
DupMsgOf(slot) ==
    CASE slot = "to_owned" -> MsgDupToOwned
      [] slot = "borrow" -> MsgDupBorrow
      [] slot = "borrow_mut" -> MsgDupBorrowMut

\* C17: on a field whose only option is `with = P`, the three delegate paths
\* are P::to_owned, P::borrow and P::borrow_mut and nothing conflicts; on a
\* field with `with = P` and one of to_owned_with, borrow_with and
\* borrow_mut_with, in either order, exactly one conflict is registered, the
\* duplicate of that one path, and the other two paths are those of P.
WithSetsThreePaths ==
    pc = "expanded" =>
        \A s \in Sites :
            LET ms == MetasOf(DeclOf(s).attrs)
                r == Res(s).attr
            IN  (OnlyBorrowme(DeclOf(s).attrs) /\ Cardinality(Sites) = 1) =>
                /\ (Len(ms) = 1 /\ ms[1].name = "with" /\ HasPath(ms[1])) =>
                    /\ \A slot \in PathSlots :
                          r[slot] /= None /\ Unwrap(r[slot]).v = Append(ms[1].path, slot)
                    /\ Hits(r.calls) = {}
                    /\ CountMsg(errors, DupMsgs) = 0
                /\ \A w, x \in {1, 2} :
                    (/\ Len(ms) = 2 /\ w /= x
                     /\ ms[w].name = "with" /\ HasPath(ms[w])
                     /\ ms[x].name \in {"to_owned_with", "borrow_with", "borrow_mut_with"}
                     /\ HasPath(ms[x])) =>
                        /\ Cardinality(Hits(r.calls)) = 1
                        /\ \A h \in Hits(r.calls) : r.calls[h].slot = PathSlot(ms[x].name)
                        /\ CountMsg(errors, DupMsgs) = 1
                        /\ CountMsg(errors, {DupMsgOf(PathSlot(ms[x].name))}) = 1
                        /\ CountMsg(errors, {MsgExisting}) = 1
                        /\ \A slot \in PathSlots \ {PathSlot(ms[x].name)} :
                              Unwrap(r[slot]).v = Append(ms[w].path, slot)
                        /\ Unwrap(r[PathSlot(ms[x].name)]).v =
                               IF x < w THEN ms[x].path
                               ELSE Append(ms[w].path, PathSlot(ms[x].name))

\* `borrow_mut_with = h` before `with = p` on one field: one conflict, for
\* borrow_mut_with, whose path stays h, and the other two paths are p's.
WithSetsThreePathsWitness ==
    /\ pc = "expanded"
    /\ Cardinality(Sites) = 1
    /\ \E s \in Sites :
        /\ DeclOf(s).attrs = <<ABorrowme(<<MPath("borrow_mut_with", <<"h">>)>>),
                               ABorrowme(<<MPath("with", <<"p">>)>>)>>
        /\ CountMsg(errors, {MsgDupBorrowMut}) = 1
        /\ Unwrap(Res(s).attr.borrow_mut).v = <<"h">>
        /\ Unwrap(Res(s).attr.to_owned).v = <<"p", "to_owned">>
        /\ Unwrap(Res(s).attr.borrow).v = <<"p", "borrow">>

\* ---- C18

\* C18: for a field that is not processed as a copy field, a to-owned path
\* set on it (to_owned_with, with) is the call of its to-owned entry and a
\* borrow path set on it (borrow_with, with) is the call of its borrow entry;
\* without one, the entry is the default of the field's kind: Clone::clone
\* and the reference expression under std, ToOwned::to_owned and
\* Borrow::borrow otherwise.
DelegatePathUsed ==
    pc = "expanded" =>
        \A s \in Sites :
            LET r == Res(s) IN
            r.kind /= KCopyTrue =>
                /\ r.to_owned.call =
                       IF IsSome(r.attr.to_owned) THEN CallPath(Unwrap(r.attr.to_owned).v)
                       ELSE IF r.kind = KStd THEN CallPath(clone_t_clone)
                       ELSE CallPath(borrowme_to_owned_t_to_owned)
                /\ r.borrow.call =
                       IF IsSome(r.attr.borrow) THEN CallPath(Unwrap(r.attr.borrow).v)
                       ELSE IF r.kind = KStd THEN CallRef
                       ELSE CallPath(borrowme_borrow_t_borrow)

\* ---- C19

\* Whether the site's field is declared as a reference with a lifetime of the
\* container (named and not 'static) and resolved to the std kind.
StdReference(s) ==
    /\ Res(s).explicit = KStd
    /\ Res(s).b_field.ty.k = "ref"
    /\ Res(s).b_field.ty.lt \notin {"", STATIC}

Recognised(level) ==
    CASE level = "container" -> {"name", "std"}
      [] level = "variant" -> {"std"}
      [] OTHER -> {OWNED, "mut", COPY, NO_COPY, "std", "to_owned_with", "borrow_with",
                   "borrow_mut_with", "with"}

\* The record under construction when the loop reaches attribute i.
Before(level, attrs, i) == AttrLoop(level, LevelInit(level), SubSeq(attrs, 1, i - 1), 1)

\* The outcome of the options of attribute i that precede option j.
MetaBefore(level, s, i, a, j) == NestedFrom(level, s, i, SubSeq(a.metas, 1, j - 1), 1)

\* Option j of attribute i is an unrecognised option of a #[borrowme(..)]
\* list, and the parser gets to it.
UnsupportedAt(level, s, i, a, j) ==
    /\ a.path = BORROWME
    /\ a.form = "list"
    /\ a.metas[j].name \notin Recognised(level)
    /\ ~IsSome(MetaBefore(level, s, i, a, j).err)

\* The unrecognised options of the input the parser gets to.
UnsupportedOptions ==
    UNION {UNION {{<<n, i, j>> : j \in {k \in 1..Len(DeclaredLevels[n].attrs[i].metas) :
                        UnsupportedAt(DeclaredLevels[n].level,
                                      Before(DeclaredLevels[n].level, DeclaredLevels[n].attrs, i),
                                      i, DeclaredLevels[n].attrs[i], k)}} :
                     i \in 1..Len(DeclaredLevels[n].attrs)} :
              n \in 1..Len(DeclaredLevels)}

OwnedTyEqType == TString

\* C21: an attribute #[owned(ty = T)] of a field registers no error, and when
\* no owned type was set before it, it sets the owned type of the field to T.
OwnedTyForm ==
    pc = "expanded" =>
        \A s \in Sites :
            \A i \in 1..Len(DeclOf(s).attrs) :
                DeclOf(s).attrs[i] = AOwnedTyEq =>
                    LET b == Before("field", DeclOf(s).attrs, i)
                        a == LevelAttr("field", b, i, AOwnedTyEq)
                    IN  /\ IsSome(b.owned) \/ a.errors = b.errors
                        /\ ~IsSome(b.owned) =>
                               a.owned = Some([span |-> <<i, 0, 0>>, v |-> OwnedTyEqType])

\* ---- C22

RECURSIVE References(_, _)
\* The references a type holds at any depth, each with the lifetimes the
\* for<..> of the bare-function types around it bind.
References(ty, bound) ==
    (IF ty.k = "ref" THEN {[ty |-> ty, bound |-> bound]} ELSE {})
    \cup UNION {References(ty.args[n], bound \cup {ty.bound[b] : b \in 1..Len(ty.bound)}) :
                   n \in 1..Len(ty.args)}

NonLifetimes(params) ==
    LET keep == {n \in 1..Len(params) : params[n].k /= "lt"}
    IN  [n \in 1..Cardinality(keep) |-> params[Nth(keep, n)]]

\* C23: the generic parameters of the twin declaration are the type and const
\* parameters of the original in their order, without its lifetime
\* parameters, and stripping the lifetimes of that list again leaves it as
\* it is.
TwinParams ==
    pc = "expanded" =>
        /\ Unwrap(out).output.params = NonLifetimes(item.params)
        /\ \A n \in 1..Len(Unwrap(out).output.params) :
               Unwrap(out).output.params[n].k \in {"type", "const"}
        /\ strip_lifetimes(Unwrap(out).output.params) = Unwrap(out).output.params

\* A container declared <const N, 'a, T> was expanded into a twin declared
\* <const N, T>.
TwinParamsWitness ==
    /\ pc = "expanded"
    /\ item.params = <<ConstParam("N"), Lt("a"), TypeParam("T")>>
    /\ Unwrap(out).output.params = <<ConstParam("N"), TypeParam("T")>>

\* ---- C24

\* C24: the arguments of the Target type of the generated Borrow
\* implementation are the generic parameters of the original, each lifetime
\* parameter replaced by 'this and every other parameter as declared.
TargetLifetimes ==
    pc = "expanded" =>
        LET target == Unwrap(out).borrow.assoc_params IN
        /\ Unwrap(out).borrow.assoc_ident = item.ident
        /\ Len(target) = Len(item.params)
        /\ \A n \in 1..Len(item.params) :
               target[n] = IF item.params[n].k = "lt" THEN Lt("this") ELSE item.params[n]

\* A container declared <'a, T, 'b> was expanded: its Target is the
\* original type with the arguments <'this, T, 'this>.
TargetLifetimesWitness ==
    /\ pc = "expanded"
    /\ item.params = <<Lt("a"), TypeParam("T"), Lt("b")>>
    /\ Unwrap(out).borrow.assoc_params = <<Lt("this"), TypeParam("T"), Lt("this")>>

\* ---- C25

\* The entry e is keyed by the name of the declared field f, or by k - 1 when
\* f, the k-th field, has no name.
KeyedBy(e, f, k) ==
    IF IsSome(f.ident)
    THEN e.member.named /\ e.member.ident = Unwrap(f.ident)
    ELSE ~e.member.named /\ e.member.index = k - 1

\* The declared fields behind arm n: the struct's, or those of variant n.
DeclaredFields(n) ==
    IF item.shape = "struct" THEN item.fields ELSE item.variants[n].fields

\* C25: each generated body holds one entry for each declared field, in
\* declaration order, keyed by the field's name or position; an enum has one
\* arm for each variant, in declaration order, named after the variant, whose
\* pattern binds each field of the variant to the variable its entries read.
EntryPerField ==
    pc = "expanded" =>
        LET arms == Unwrap(out).arms IN
        /\ Len(arms) = IF item.shape = "struct" THEN 1 ELSE Len(item.variants)
        /\ \A n \in 1..Len(arms) :
            /\ Len(arms[n].fields) = Len(DeclaredFields(n))
            /\ \A k \in 1..Len(arms[n].fields) :
                /\ KeyedBy(arms[n].fields[k].to_owned, DeclaredFields(n)[k], k)
                /\ KeyedBy(arms[n].fields[k].borrow, DeclaredFields(n)[k], k)
            /\ IF item.shape = "struct"
               THEN arms[n].variant = "" /\ arms[n].patterns = <<>>
               ELSE /\ arms[n].variant = item.variants[n].ident
                    /\ Unwrap(out).output.variants[n].ident = item.variants[n].ident
                    /\ Unwrap(out).item.variants[n].ident = item.variants[n].ident
                    /\ Len(arms[n].patterns) = Len(DeclaredFields(n))
                    /\ \A k \in 1..Len(arms[n].patterns) :
                        /\ KeyedBy(arms[n].patterns[k], DeclaredFields(n)[k], k)
                        /\ arms[n].fields[k].to_owned.var = arms[n].patterns[k].var
                        /\ arms[n].fields[k].borrow.var = arms[n].patterns[k].var

\* An enum of a unit variant, a tuple variant of three fields and a named
\* variant of two was expanded: the third entry of the tuple variant is keyed
\* by 2 and reads f2.
EntryPerFieldWitness ==
    /\ pc = "expanded"
    /\ item.shape = "enum"
    /\ Len(item.variants) = 3
    /\ Len(Unwrap(out).arms[2].fields) = 3
    /\ Len(Unwrap(out).arms[3].fields) = 2
    /\ Unwrap(out).arms[2].fields[3].to_owned.member.index = 2
    /\ Unwrap(out).arms[2].patterns[3].var = "f2"
    /\ Unwrap(out).arms[3].fields[2].borrow.member.ident = "second"

\* ---- C26

\* The declared fields and the emitted ones agree in number, names, order and
\* types.
SameFields(declared, emitted) ==
    /\ Len(emitted) = Len(declared)
    /\ \A k \in 1..Len(declared) :
        /\ emitted[k].ident = declared[k].ident
        /\ emitted[k].ty = declared[k].ty

RECURSIVE Subterms(_)
\* A type as declared and the types it is built from.
Subterms(ty) == {ty} \cup UNION {Subterms(ty.args[n]) : n \in 1..Len(ty.args)}

\* The paths an emitted call can name: those of the library and those
\* written in the attributes of the field.
CallPaths(s) ==
    {CallRef, CallPath(clone_t_clone), CallPath(borrowme_to_owned_t_to_owned),
     CallPath(borrowme_borrow_t_borrow)}
    \cup {CallPath(m.path) : m \in {x \in Elems(MetasOf(DeclOf(s).attrs)) : x.name \in
                                       {"to_owned_with", "borrow_with"}}}
    \cup {CallPath(Append(m.path, g)) :
             m \in {x \in Elems(MetasOf(DeclOf(s).attrs)) : x.name = "with"},
             g \in {"to_owned", "borrow"}}

\* C26: the emitted original declaration has the identifier, generic
\* parameters, variants, field names, field order and field types of the
\* input; the type of the twin field is the declared type, a type it is
\* built from, the owned type of an attribute, or the ToOwned projection,
\* which alone holds the type rewritten to 'static; the emitted calls are
\* library paths or paths of the field's attributes.
OriginalUnchanged ==
    pc = "expanded" =>
        LET b == Unwrap(out).item IN
        /\ b.shape = item.shape
        /\ b.ident = item.ident
        /\ b.params = item.params
        /\ SameFields(item.fields, b.fields)
        /\ Len(b.variants) = Len(item.variants)
        /\ \A n \in 1..Len(item.variants) :
            /\ b.variants[n].ident = item.variants[n].ident
            /\ SameFields(item.variants[n].fields, b.variants[n].fields)
        /\ \A s \in Sites :
            /\ Res(s).b_field.ty = DeclOf(s).ty
            /\ Res(s).o_field.ty \in
                   {TProj(Res(s).as_ty)} \cup Subterms(DeclOf(s).ty)
                   \cup (IF IsSome(Res(s).attr.owned)
                         THEN {Unwrap(Res(s).attr.owned).v} ELSE {})
            /\ Res(s).to_owned.call \in CallPaths(s)
            /\ Res(s).borrow.call \in CallPaths(s)

\* A field declared Option<Vec<&'a str>> was expanded: the projection holds
\* the rewritten type and the borrowed field the declared one.
OriginalUnchangedWitness ==
    /\ pc = "expanded"
    /\ \E s \in Sites :
        /\ DeclOf(s).ty = TPath("Option", <<TPath("Vec", <<TRef("a", TStr)>>)>>)
        /\ Res(s).as_ty = TPath("Option", <<TPath("Vec", <<TRef(STATIC, TStr)>>)>>)
        /\ Res(s).o_field.ty = TProj(Res(s).as_ty)
        /\ Res(s).b_field.ty = DeclOf(s).ty
        /\ Unwrap(out).item.fields[1].ty = DeclOf(s).ty

\* ---- C27

\* The names of the lifetime parameters of the input.
OriginalLifetimes == {item.params[n].name : n \in {m \in 1..Len(item.params) : item.params[m].k = "lt"}}

RECURSIVE MentionsLifetime(_, _)
\* The type names, at any depth, a lifetime parameter of the input that no
\* enclosing for<..> binds.
MentionsLifetime(ty, bound) ==
    \/ ty.k \in {"ref", "ltarg"} /\ ty.lt \in OriginalLifetimes \ bound
    \/ \E n \in 1..Len(ty.args) :
          MentionsLifetime(ty.args[n], bound \cup {ty.bound[b] : b \in 1..Len(ty.bound)})

\* C27: when the expansion registered no error and no owned type written in
\* an attribute names a lifetime, the twin declaration has no lifetime
\* parameter and none of its field types names a lifetime parameter of the
\* input.
TwinWithoutLifetimes ==
    (/\ pc = "expanded"
     /\ errors = <<>>
     /\ \A s \in Sites :
            IsSome(Res(s).attr.owned) => ~MentionsLifetime(Unwrap(Res(s).attr.owned).v, {})) =>
        /\ \A n \in 1..Len(Unwrap(out).output.params) : Unwrap(out).output.params[n].k /= "lt"
        /\ \A s \in Sites : ~MentionsLifetime(Res(s).o_field.ty, {})

\* ---- C28

\* C28: for every field processed as a copy field, in a struct body and in a
\* match arm of an enum alike, the to-owned and the borrow expression denote
\* the value of the field and not a reference to it.
CopyDenotesValue ==
    pc = "expanded" =>
        \A s \in Sites :
            Res(s).kind = KCopyTrue =>
                /\ ~IsReference(Res(s).to_owned)
                /\ ~IsReference(Res(s).borrow)

\* ---- C29

\* C29: every attribute with a reserved name, which strip removes from the
\* emitted declarations, changed the record of its level when it was
\* resolved: it wrote a slot, forwarded a meta or registered an error.
NoSilentDiscard ==
    pc = "expanded" =>
        \A n \in 1..Len(DeclaredLevels) :
            LET l == DeclaredLevels[n] IN
            \A i \in 1..Len(l.attrs) :
                l.attrs[i].path \in Reserved =>
                    LET b == Before(l.level, l.attrs, i)
                        a == LevelAttr(l.level, b, i, l.attrs[i])
                    IN  \/ a.calls /= b.calls
                        \/ a.errors /= b.errors
                        \/ a.attr_own /= b.attr_own
                        \/ a.attr_borrow /= b.attr_borrow

\* ---- C30

\* #[borrowme(mut)] and #[borrowme(borrow_mut_with = h)], in both orders.
MutAndBorrowMutWith ==
    {<<ABorrowme(<<MFlag("mut")>>), ABorrowme(<<MPath("borrow_mut_with", <<"h">>)>>)>>,
     <<ABorrowme(<<MPath("borrow_mut_with", <<"h">>)>>), ABorrowme(<<MFlag("mut")>>)>>}

\* C30: a field with #[borrowme(mut)] and #[borrowme(borrow_mut_with = h)],
\* in either order, resolves without an error, with the mutability flag set
\* and h as its borrow-mut path.
BorrowMutWithImpliesMut ==
    pc = "expanded" =>
        \A s \in Sites :
            DeclOf(s).attrs \in MutAndBorrowMutWith =>
                /\ AttrLoop("field", FieldInit(<<>>), DeclOf(s).attrs, 1).errors = <<>>
                /\ FieldIsMut(Res(s).attr)
                /\ FieldBorrowMut(Res(s).attr) = <<"h">>

=============================================================================
